---- MODULE Spec2Model ----
(***************************************************************************)
(* Smart river name placement: RiverPathParser.parse / validate,           *)
(* WKTParser.extractCenterline, GeometryAnalyzer.analyzeGeometry,          *)
(* PlacementScorer.findCandidates / findOptimalPlacement / selectOptimal   *)
(* and TextPlacer.placeText, as a state machine over one pipeline run, a   *)
(* second run of the pipeline on the same river, and single calls of       *)
(* selectOptimal, placeText, extractCenterline and parse on a WKT text     *)
(* (Spec), and the operations of a UIController in any order (SpecUI).     *)
(*                                                                         *)
(* Arrays are sequences; a JavaScript index i is position i+1, and every   *)
(* startIdx / endIdx kept in the state is the JavaScript (0-based) index.  *)
(* Lengths along the path are integers: the inputs are paths whose         *)
(* segments are axis-parallel, so Math.sqrt is exact on them.  Curvatures  *)
(* and scores are fixed-point numbers with Scale units per 1.0, divisions  *)
(* rounding down.                                                          *)
(***************************************************************************)
EXTENDS Integers, Sequences, FiniteSets, TLC

VARIABLES
  pc,          \* position in the pipeline run
  input,       \* the coordinate list handed to parse
  path,        \* parse's return value: a RiverPath or an Error; of a
               \* controller, this.currentRiver
  metrics,     \* analyzeGeometry's return value
  text,        \* the label handed to findOptimalPlacement; of a
               \* controller, this.currentRiverName
  result,      \* findOptimalPlacement's return value
  cands,       \* the candidate list handed to selectOptimal
  chosen,      \* selectOptimal's return value
  scorer,      \* PlacementScorer._measurementContext
  placer,      \* TextPlacer.measureCtx
  fromIdx,     \* the startIdx handed to placeText
  placements,  \* placeText's return value, or the error it throws
  first,       \* what the first run of the pipeline returned
  polygon,     \* the ring handed to extractCenterline
  centerline,  \* extractCenterline's return value, or the error it throws
  ui           \* the UIController: its fields, its pending fetches, and what
               \* its last operation displayed, drew and threw

vars == <<pc, input, path, metrics, text, result, cands, chosen, scorer,
          placer, fromIdx, placements, first, polygon, centerline, ui>>

-----------------------------------------------------------------------------
(* Bounds of the model *)

MaxPoints == 9
MaxTextLen == 1
MaxCands == 3
MaxVertices == 5
MaxPending == 1

(* Program constants *)

MinPoints == 3
SharpThreshold == 30
MinWidth == 10
IdealWidth == 20
EdgeDivisor == 10
FontSize == 16
MaxSamples == 100

Scale == 10 * 100

-----------------------------------------------------------------------------
(* Numbers *)

Abs(a) == IF a < 0 THEN 0 - a ELSE a
Max(a, b) == IF a > b THEN a ELSE b
Min(a, b) == IF a < b THEN a ELSE b

RECURSIVE SqrtSearch(_, _, _)
SqrtSearch(v, lo, hi) ==
  IF lo >= hi THEN lo
  ELSE LET mid == (lo + hi + 1) \div 2
       IN IF mid * mid <= v THEN SqrtSearch(v, mid, hi)
          ELSE SqrtSearch(v, lo, mid - 1)

\* Math.sqrt, rounded down to an integer (exact on perfect squares)
Sqrt(v) == SqrtSearch(v, 0, Min(v, 46340))

\* Math.sqrt(Math.pow(p2.x - p1.x, 2) + Math.pow(p2.y - p1.y, 2))
Dist(p1, p2) ==
  Sqrt((p2.x - p1.x) * (p2.x - p1.x) + (p2.y - p1.y) * (p2.y - p1.y))

\* Math.acos(clamp(dot / (mag1 * mag2))) * 180 / PI, for the angles that
\* axis-parallel segments make
AcosDeg(dot, mm) ==
  CASE dot >= mm -> 0
    [] dot = 0 -> 90
    [] dot <= 0 - mm -> 180

\* Math.atan2(dy, dx) in degrees, for axis-parallel (dx, dy)
Atan2Deg(dy, dx) ==
  CASE dy = 0 /\ dx >= 0 -> 0
    [] dy = 0 /\ dx < 0 -> 180
    [] dx = 0 /\ dy > 0 -> 90
    [] dx = 0 /\ dy < 0 -> 0 - 90

RECURSIVE SumSeq(_)
SumSeq(s) == IF s = <<>> THEN 0 ELSE Head(s) + SumSeq(Tail(s))

-----------------------------------------------------------------------------
(* Input values.  A field of a coordinate entry is a finite number or a     *)
(* value that fails typeof === 'number' && isFinite (NaN, Infinity, a       *)
(* string).  A width slot of RiverPath.widths is a number or null.          *)

Fin(v) == [fin |-> TRUE, v |-> v]
NonFinite == [fin |-> FALSE, v |-> 0]

Num(v) == <<v>>
Null == <<>>

-----------------------------------------------------------------------------
(* RiverPathParser *)

ErrorValue(msg) == [kind |-> "Error", message |-> msg]

IsError(v) == v.kind = "Error"

\* the numeric check applied to x and y only
HasBadCoordinate(coord) == \E j \in 1..Min(2, Len(coord)) : ~coord[j].fin

\* typeof coord[j] !== 'number' || !isFinite(coord[j]) for some j
HasBadField(coord) == \E j \in 1..Len(coord) : ~coord[j].fin

\* coord.length < 2 || coord.length > 3
HasBadShape(coord) == Len(coord) < 2 \/ Len(coord) > 3

\* validate(coordinates): the first failing rule, in the order of the code
RECURSIVE ValidateFrom(_, _)
ValidateFrom(coordinates, i) ==
  IF i > Len(coordinates) THEN [valid |-> TRUE, error |-> ""]
  ELSE IF HasBadShape(coordinates[i])
       THEN [valid |-> FALSE, error |-> "must have 2 or 3 elements"]
  ELSE IF HasBadField(coordinates[i])
       THEN [valid |-> FALSE, error |-> "must be numeric"]
  ELSE ValidateFrom(coordinates, i + 1)

validate(coordinates) ==
  IF Len(coordinates) < MinPoints
  THEN [valid |-> FALSE, error |-> "must have at least 3 coordinate points"]
  ELSE ValidateFrom(coordinates, 1)

\* the width loop of parse: widths.push(coord[2]) for a 3-field entry,
\* widths.push(null) for a 2-field entry once hasWidthData is set
RECURSIVE ExtractWidths(_, _, _, _)
ExtractWidths(coordinates, i, hasWidthData, widths) ==
  IF i > Len(coordinates) THEN widths
  ELSE IF Len(coordinates[i]) = 3
       THEN ExtractWidths(coordinates, i + 1, TRUE,
                          Append(widths, Num(coordinates[i][3].v)))
  ELSE IF hasWidthData
       THEN ExtractWidths(coordinates, i + 1, TRUE, Append(widths, Null))
  ELSE ExtractWidths(coordinates, i + 1, FALSE, widths)

ExtractPoints(coordinates) ==
  [i \in 1..Len(coordinates) |->
     [x |-> coordinates[i][1].v, y |-> coordinates[i][2].v]]

\* sum of the distances between consecutive points, from point a to point b
\* (positions in the sequence)
RECURSIVE LengthBetween(_, _, _)
LengthBetween(points, a, b) ==
  IF a >= b THEN 0
  ELSE Dist(points[a], points[a + 1]) + LengthBetween(points, a + 1, b)

RECURSIVE MinOver(_, _)
MinOver(s, i) ==
  IF i = Len(s) THEN s[i] ELSE Min(s[i], MinOver(s, i + 1))

RECURSIVE MaxOver(_, _)
MaxOver(s, i) ==
  IF i = Len(s) THEN s[i] ELSE Max(s[i], MaxOver(s, i + 1))

Bounds(points) ==
  LET xs == [i \in 1..Len(points) |-> points[i].x]
      ys == [i \in 1..Len(points) |-> points[i].y]
  IN [minX |-> MinOver(xs, 1), maxX |-> MaxOver(xs, 1),
      minY |-> MinOver(ys, 1), maxY |-> MaxOver(ys, 1)]

\* parse(data) for an array argument.  widths: null is the empty sequence:
\* every reader of path.widths tests !path.widths || path.widths.length === 0
parse(data) ==
  LET validationResult == validate(data)
  IN IF ~validationResult.valid THEN ErrorValue(validationResult.error)
     ELSE LET points == ExtractPoints(data)
          IN [kind |-> "RiverPath",
              points |-> points,
              widths |-> ExtractWidths(data, 1, FALSE, <<>>),
              length |-> LengthBetween(points, 1, Len(points)),
              bounds |-> Bounds(points)]

-----------------------------------------------------------------------------
(* The inputs of a run: a path of n entries stepping east by one unit,      *)
(* every entry without a width or every entry with the ideal width, and up  *)
(* to two entries changed: another step into the entry, another width       *)
(* field, or a malformed entry.                                             *)

MoveKinds == {"N", "W", "Z", "L"}
WidthKinds == {"absent", "narrow", "wide"}
BadKinds == {"short", "long", "badCoord", "badWidth"}

NoSlot == [pos |-> 0, kind |-> "none"]

\* changes that keep the input well-formed, and changes that do not
GoodSlots(n) == {NoSlot} \cup [pos : 1..n, kind : MoveKinds \cup WidthKinds]
BadSlots(n) == [pos : 1..n, kind : BadKinds]

\* each pair of changes is taken once: no change and any change, or a
\* change of the step and any change of the same or another entry, or two
\* changes of different entries
SlotsInOrder(s1, s2) ==
  \/ s1 = NoSlot
  \/ /\ s2 # NoSlot
     /\ s1.kind \in MoveKinds \/ s2.kind \notin MoveKinds
     /\ \/ s1.kind \in MoveKinds /\ s2.kind \in MoveKinds
        \/ s1.kind \in WidthKinds /\ s2.kind \in WidthKinds
        => s1.pos < s2.pos

KindAt(k, kinds, s1, s2, default) ==
  IF s2.pos = k /\ s2.kind \in kinds THEN s2.kind
  ELSE IF s1.pos = k /\ s1.kind \in kinds THEN s1.kind
  ELSE default

StepVector(kind) ==
  CASE kind = "E" -> [x |-> 1, y |-> 0]
    [] kind = "N" -> [x |-> 0, y |-> 1]
    [] kind = "W" -> [x |-> 0 - 1, y |-> 0]
    [] kind = "Z" -> [x |-> 0, y |-> 0]
    [] kind = "L" -> [x |-> 3, y |-> 0]

RECURSIVE PointAt(_, _, _)
PointAt(k, s1, s2) ==
  IF k = 1 THEN [x |-> 0, y |-> 0]
  ELSE LET p == PointAt(k - 1, s1, s2)
           d == StepVector(KindAt(k, MoveKinds, s1, s2, "E"))
       IN [x |-> p.x + d.x, y |-> p.y + d.y]

WidthField(kind) ==
  CASE kind = "absent" -> <<>>
    [] kind = "narrow" -> <<Fin(5)>>
    [] kind = "wide" -> <<Fin(20)>>

EntryAt(k, base, s1, s2) ==
  LET p == PointAt(k, s1, s2)
      bad == KindAt(k, BadKinds, s1, s2, "ok")
      w == WidthField(KindAt(k, WidthKinds, s1, s2, base))
  IN CASE bad = "ok" -> <<Fin(p.x), Fin(p.y)>> \o w
       [] bad = "short" -> <<Fin(p.x)>>
       [] bad = "long" -> <<Fin(p.x), Fin(p.y), Fin(20), Fin(0)>>
       [] bad = "badCoord" -> <<NonFinite, Fin(p.y)>> \o w
       [] bad = "badWidth" -> <<Fin(p.x), Fin(p.y), NonFinite>>

BuildInput(n, base, s1, s2) == [k \in 1..n |-> EntryAt(k, base, s1, s2)]

Bases == {"absent", "wide"}

-----------------------------------------------------------------------------
(* GeometryAnalyzer *)

Segment(startIdx, endIdx, length, reason) ==
  [startIdx |-> startIdx, endIdx |-> endIdx, length |-> length,
   reason |-> reason]

\* _calculateSegmentLength(path, startIdx, endIdx), JavaScript indices
SegmentLength(points, startIdx, endIdx) ==
  LengthBetween(points, startIdx + 1, endIdx + 1)

\* the angle between the two adjacent segments, not divided by their mean
\* length
RawCurvatureAngleOnly(points, k) ==
  LET v1x == points[k].x - points[k - 1].x
      v1y == points[k].y - points[k - 1].y
      v2x == points[k + 1].x - points[k].x
      v2y == points[k + 1].y - points[k].y
      mag1 == Sqrt(v1x * v1x + v1y * v1y)
      mag2 == Sqrt(v2x * v2x + v2y * v2y)
  IN IF mag1 = 0 \/ mag2 = 0 THEN 0
     ELSE AcosDeg(v1x * v2x + v1y * v2y, mag1 * mag2) * Scale

\* the raw curvature at position k (JavaScript index k - 1), an interior
\* point: angle between the two adjacent segments over their mean length
RawCurvature(points, k) ==
  LET v1x == points[k].x - points[k - 1].x
      v1y == points[k].y - points[k - 1].y
      v2x == points[k + 1].x - points[k].x
      v2y == points[k + 1].y - points[k].y
      mag1 == Sqrt(v1x * v1x + v1y * v1y)
      mag2 == Sqrt(v2x * v2x + v2y * v2y)
  IN IF mag1 = 0 \/ mag2 = 0 THEN 0
     ELSE (AcosDeg(v1x * v2x + v1y * v2y, mag1 * mag2) * Scale * 2)
            \div (mag1 + mag2)

\* the moving average taken at the two end points as well
SmoothedCurvatureAtEnds(raw, k) ==
  LET n == Len(raw)
  IN IF k = 1 THEN (raw[k] + raw[k + 1]) \div 2
     ELSE IF k = n THEN (raw[k - 1] + raw[k]) \div 2
     ELSE (raw[k - 1] + raw[k] + raw[k + 1]) \div 3

\* the moving average of calculateCurvature at position k
SmoothedCurvature(raw, k) ==
  LET n == Len(raw)
  IN IF k = 1 \/ k = n THEN 0
     ELSE IF k = 2 THEN (raw[k] + raw[k + 1]) \div 2
     ELSE IF k = n - 1 THEN (raw[k - 1] + raw[k]) \div 2
     ELSE (raw[k - 1] + raw[k] + raw[k + 1]) \div 3

calculateCurvature(p) ==
  LET n == Len(p.points)
      raw == [k \in 1..n |->
                IF k = 1 \/ k = n THEN 0 ELSE RawCurvature(p.points, k)]
  IN IF n < 3 THEN <<>>
     ELSE [k \in 1..n |-> SmoothedCurvature(raw, k)]

\* the scanning loop pushing the run found so far at every index over the
\* limit, instead of once when the run ends
RECURSIVE ScanRunsGrowing(_, _, _, _, _, _)
ScanRunsGrowing(points, flags, k, inRun, startIdx, reason) ==
  IF k > Len(flags) THEN <<>>
  ELSE IF flags[k]
       THEN LET runStart == IF inRun THEN startIdx ELSE k - 1
            IN <<Segment(runStart, k - 1,
                         SegmentLength(points, runStart, k - 1), reason)>>
               \o ScanRunsGrowing(points, flags, k + 1, TRUE, runStart, reason)
  ELSE ScanRunsGrowing(points, flags, k + 1, FALSE, 0 - 1, reason)

\* the scanning loop shared by findSharpCurves and findNarrowSections:
\* flags[k] says whether JavaScript index k - 1 is over the limit; a run is
\* closed at the first index that is not, or at the end of the array
RECURSIVE ScanRuns(_, _, _, _, _, _)
ScanRuns(points, flags, k, inRun, startIdx, reason) ==
  IF k > Len(flags)
  THEN IF inRun
       THEN <<Segment(startIdx, Len(flags) - 1,
                      SegmentLength(points, startIdx, Len(flags) - 1),
                      reason)>>
       ELSE <<>>
  ELSE IF flags[k]
       THEN ScanRuns(points, flags, k + 1, TRUE,
                     IF inRun THEN startIdx ELSE k - 1, reason)
  ELSE IF inRun
       THEN <<Segment(startIdx, k - 2,
                      SegmentLength(points, startIdx, k - 2), reason)>>
            \o ScanRuns(points, flags, k + 1, FALSE, 0 - 1, reason)
  ELSE ScanRuns(points, flags, k + 1, FALSE, 0 - 1, reason)

\* findSharpCurves with the comparison written >=
findSharpCurvesFromThreshold(p, threshold) ==
  LET curvatures == calculateCurvature(p)
  IN IF Len(p.points) < 3 THEN <<>>
     ELSE ScanRuns(p.points,
                   [k \in 1..Len(curvatures) |->
                      curvatures[k] >= threshold * Scale],
                   1, FALSE, 0 - 1, "sharp curve")

findSharpCurves(p, threshold) ==
  LET curvatures == calculateCurvature(p)
  IN IF Len(p.points) < 3 THEN <<>>
     ELSE ScanRuns(p.points,
                   [k \in 1..Len(curvatures) |->
                      curvatures[k] > threshold * Scale],
                   1, FALSE, 0 - 1, "sharp curve")

\* widths[i] < minWidth: the relational operator converts null to 0
WidthBelow(w, minWidth) ==
  IF w = Null THEN 0 < minWidth ELSE w[1] < minWidth

findNarrowSections(p, minWidth) ==
  IF Len(p.widths) = 0 THEN <<>>
  ELSE ScanRuns(p.points,
                [k \in 1..Len(p.widths) |-> WidthBelow(p.widths[k], minWidth)],
                1, FALSE, 0 - 1, "narrow section")

\* accumulatedLength >= totalLength * 0.1
ReachesEdgeThresholdStrictly(accumulatedLength, totalLength) ==
  EdgeDivisor * accumulatedLength > totalLength

ReachesEdgeThreshold(accumulatedLength, totalLength) ==
  EdgeDivisor * accumulatedLength >= totalLength

\* the forward loop of getEdgeSections from JavaScript index i: the index
\* after the first segment at which the threshold is reached, 0 if none
RECURSIVE StartEdgeScan(_, _, _, _)
StartEdgeScan(points, totalLength, i, accumulatedLength) ==
  IF i >= Len(points) - 1 THEN 0
  ELSE LET acc == accumulatedLength + Dist(points[i + 1], points[i + 2])
       IN IF ReachesEdgeThreshold(acc, totalLength) THEN i + 1
          ELSE StartEdgeScan(points, totalLength, i + 1, acc)

\* the backward loop of getEdgeSections from JavaScript index i
RECURSIVE EndEdgeScan(_, _, _, _)
EndEdgeScan(points, totalLength, i, accumulatedLength) ==
  IF i <= 0 THEN Len(points) - 1
  ELSE LET acc == accumulatedLength + Dist(points[i + 1], points[i])
       IN IF ReachesEdgeThreshold(acc, totalLength) THEN i - 1
          ELSE EndEdgeScan(points, totalLength, i - 1, acc)

\* edge regions of the two end points only
getEdgeSectionsEndsOnly(p) ==
  [start |-> Segment(0, 0, 0, "edge section"),
   end |-> Segment(Len(p.points) - 1, Len(p.points) - 1, 0, "edge section")]

getEdgeSections(p) ==
  LET points == p.points
      n == Len(points)
      scannedStart == StartEdgeScan(points, p.length, 0, 0)
      startEndIdx == IF scannedStart = 0 /\ n > 1 THEN n - 1
                     ELSE scannedStart
      scannedEnd == EndEdgeScan(points, p.length, n - 1, 0)
      endStartIdx == IF scannedEnd = n - 1 /\ n > 1 THEN 0 ELSE scannedEnd
  IN [start |-> Segment(0, startEndIdx,
                        SegmentLength(points, 0, startEndIdx),
                        "edge section"),
      end |-> Segment(endStartIdx, n - 1,
                      SegmentLength(points, endStartIdx, n - 1),
                      "edge section")]

analyzeGeometry(p) ==
  LET curvatures == calculateCurvature(p)
      n == Len(curvatures)
  IN [kind |-> "GeometryMetrics",
      curvatures |-> curvatures,
      sharpCurves |-> findSharpCurves(p, SharpThreshold),
      narrowSections |-> IF Len(p.widths) > 0
                         THEN findNarrowSections(p, MinWidth) ELSE <<>>,
      edgeSections |-> getEdgeSections(p),
      avgCurvature |-> IF n > 2
                       THEN SumSeq(SubSeq(curvatures, 2, n - 1)) \div (n - 2)
                       ELSE 0,
      maxCurvature |-> IF n > 0 THEN MaxOver(curvatures, 1) ELSE 0]

-----------------------------------------------------------------------------
(* PlacementScorer *)

\* the advance width of a character: the caller's font metrics
AdvanceWidth(c) == IF c = "i" THEN 1 ELSE 4

\* a measurement context: the font size it is configured with, 0 while no
\* font has been set on it
NoContext == [kind |-> "null"]
NewContext == [kind |-> "context", font |-> 0]

\* ctx.measureText(c).width: the advance width of c at the font size of ctx
GlyphWidth(ctx, c) == (AdvanceWidth(c) * ctx.font) \div FontSize

RECURSIVE MeasureText(_, _)
MeasureText(ctx, t) ==
  IF t = <<>> THEN 0 ELSE GlyphWidth(ctx, Head(t)) + MeasureText(ctx, Tail(t))

\* the context created before its font is set, and left so on first use
ScorerContextStale(ctx, fontSize) ==
  IF ctx = NoContext THEN NewContext ELSE [ctx EXCEPT !.font = fontSize]

\* this._measurementContext after measureTextLength: created if there is
\* none, and its font set to the caller's on every call
ScorerContext(ctx, fontSize) ==
  [(IF ctx = NoContext THEN NewContext ELSE ctx) EXCEPT !.font = fontSize]

\* measureTextLength(text, fontSize, fontFamily): the measured width of the
\* label, here the sum of the advance widths of its characters
measureTextLength(ctx, t, fontSize) ==
  MeasureText(ScorerContext(ctx, fontSize), t)

\* the JavaScript indices startIdx..endIdx of a region
IndicesOf(segment) == segment.startIdx..segment.endIdx

\* the rejected set filled from the sharp curves and narrow sections only
RejectedIndicesWithoutEdges(m) ==
  UNION {IndicesOf(m.sharpCurves[j]) : j \in 1..Len(m.sharpCurves)}
  \cup UNION {IndicesOf(m.narrowSections[j]) : j \in 1..Len(m.narrowSections)}

\* const rejectedIndices = new Set(), filled from the four kinds of region
RejectedIndices(m) ==
  UNION {IndicesOf(m.sharpCurves[j]) : j \in 1..Len(m.sharpCurves)}
  \cup UNION {IndicesOf(m.narrowSections[j]) : j \in 1..Len(m.narrowSections)}
  \cup IndicesOf(m.edgeSections.start)
  \cup IndicesOf(m.edgeSections.end)

RECURSIVE SumOver(_, _, _)
SumOver(f, a, b) == IF a > b THEN 0 ELSE f[a] + SumOver(f, a + 1, b)

_calculateCurvatureScore(p, startIdx, endIdx, m) ==
  LET last == Min(endIdx, Len(m.curvatures) - 1)
      count == IF last >= startIdx THEN last - startIdx + 1 ELSE 0
      sum == SumOver(m.curvatures, startIdx + 1, last + 1)
      avgCurvature == IF count > 0 THEN sum \div count ELSE 0
  IN Max(0, 100 * Scale - avgCurvature * 3)

_calculateWidthScore(p, startIdx, endIdx) ==
  IF Len(p.widths) = 0 THEN 50 * Scale
  ELSE LET known == {i \in startIdx..endIdx :
                       i < Len(p.widths) /\ p.widths[i + 1] # Null}
           count == Cardinality(known)
           sum == SumOver([k \in 1..Len(p.widths) |->
                             IF (k - 1) \in known THEN p.widths[k][1] ELSE 0],
                          1, Len(p.widths))
       IN IF count > 0
          THEN Min(100 * Scale, (sum * 100 * Scale) \div (count * IdealWidth))
          ELSE Min(100 * Scale, 0)

\* lengths are doubled so that segmentLength / 2 and totalLength / 2 are exact
_calculatePositionScore(p, startIdx, endIdx) ==
  LET n == Len(p.points)
      distanceToSegmentStart == SegmentLength(p.points, 0, Min(startIdx, n - 1))
      segmentLength == SegmentLength(p.points, Min(startIdx, n - 1),
                                     Min(endIdx, n - 1))
      segmentCenter2 == 2 * distanceToSegmentStart + segmentLength
      centerDistance2 == Abs(segmentCenter2 - p.length)
      maxDistance2 == p.length
  IN IF maxDistance2 > 0
     THEN (100 * Scale * (maxDistance2 - centerDistance2)) \div maxDistance2
     ELSE 100 * Scale

\* diff = angle - avgAngle, times the number of angles, wrapped into
\* [-180, 180] degrees
WrapDiff(d, count) ==
  IF d > 180 * count THEN d - 360 * count
  ELSE IF d < 0 - 180 * count THEN d + 360 * count
  ELSE d

\* the standard deviation of the segment headings, in fixed-point degrees,
\* kept to a tenth of a degree
HeadingDeviation(p, startIdx, endIdx) ==
  LET n == Len(p.points)
      last == Min(endIdx - 1, n - 2)
      count == IF last >= startIdx THEN last - startIdx + 1 ELSE 0
      angles == [k \in 1..count |->
                   Atan2Deg(p.points[startIdx + k + 1].y
                              - p.points[startIdx + k].y,
                            p.points[startIdx + k + 1].x
                              - p.points[startIdx + k].x)]
      total == SumSeq(angles)
      sq == [k \in 1..count |->
               WrapDiff(count * angles[k] - total, count)
                 * WrapDiff(count * angles[k] - total, count)]
      variance100 == (SumSeq(sq) * 100) \div (count * count * count)
  IN Sqrt(variance100) * (Scale \div 10)

\* the straightness score without Math.max(0, ...)
StraightnessUnclamped(p, startIdx, endIdx) ==
  LET last == Min(endIdx - 1, Len(p.points) - 2)
  IN IF endIdx - startIdx < 2 THEN 100 * Scale
     ELSE IF last < startIdx THEN 100 * Scale
     ELSE 100 * Scale - HeadingDeviation(p, startIdx, endIdx) * 5

_calculateStraightnessScore(p, startIdx, endIdx) ==
  LET last == Min(endIdx - 1, Len(p.points) - 2)
  IN IF endIdx - startIdx < 2 THEN 100 * Scale
     ELSE IF last < startIdx THEN 100 * Scale
     ELSE Max(0, 100 * Scale - HeadingDeviation(p, startIdx, endIdx) * 5)

\* weights 0.4 / 0.2 / 0.2 / 0.2
scoreSegment(p, startIdx, endIdx, m) ==
  LET curvatureScore == _calculateCurvatureScore(p, startIdx, endIdx, m)
      widthScore == _calculateWidthScore(p, startIdx, endIdx)
      positionScore == _calculatePositionScore(p, startIdx, endIdx)
      straightnessScore == _calculateStraightnessScore(p, startIdx, endIdx)
  IN [score |-> (curvatureScore * 4 + widthScore * 2 + positionScore * 2
                   + straightnessScore * 2) \div 10,
      scores |-> [curvature |-> curvatureScore, width |-> widthScore,
                  position |-> positionScore,
                  straightness |-> straightnessScore]]

\* the second loop of _calculateCenterPoint from JavaScript index i, lengths
\* doubled; coordinates of the result are fixed-point
RECURSIVE CenterWalk(_, _, _, _, _)
CenterWalk(points, i, endIdx, targetLength2, accumulatedLength) ==
  IF i >= endIdx \/ i >= Len(points) - 1
  THEN [x |-> points[Min(endIdx, Len(points) - 1) + 1].x * Scale,
        y |-> points[Min(endIdx, Len(points) - 1) + 1].y * Scale]
  ELSE LET p1 == points[i + 1]
           p2 == points[i + 2]
           segmentLength == Dist(p1, p2)
           remaining2 == targetLength2 - 2 * accumulatedLength
       IN IF 2 * (accumulatedLength + segmentLength) >= targetLength2
          THEN IF segmentLength > 0
               THEN [x |-> p1.x * Scale + ((p2.x - p1.x) * remaining2 * Scale)
                                            \div (2 * segmentLength),
                     y |-> p1.y * Scale + ((p2.y - p1.y) * remaining2 * Scale)
                                            \div (2 * segmentLength)]
               ELSE [x |-> p1.x * Scale, y |-> p1.y * Scale]
          ELSE CenterWalk(points, i + 1, endIdx, targetLength2,
                          accumulatedLength + segmentLength)

_calculateCenterPoint(p, startIdx, endIdx) ==
  CenterWalk(p.points, startIdx, endIdx,
             SegmentLength(p.points, startIdx, Min(endIdx, Len(p.points) - 1)),
             0)

Candidate(p, startIdx, endIdx, segmentLength, m) ==
  LET scoreResult == scoreSegment(p, startIdx, endIdx, m)
  IN [kind |-> "Candidate",
      segment |-> Segment(startIdx, endIdx, segmentLength, "null"),
      score |-> scoreResult.score,
      scores |-> scoreResult.scores,
      centerPoint |-> _calculateCenterPoint(p, startIdx, endIdx)]

\* if (segmentLength >= textLength) with the comparison left out: every
\* window is pushed
FitsAlways(length, textLength) == TRUE

\* if (segmentLength >= textLength) written with >
FitsStrictly(length, textLength) == length > textLength

\* if (segmentLength >= textLength): the window is long enough for the label
Fits(length, textLength) == length >= textLength

\* the inner loop of findCandidates leaving a start index after the first
\* window that fits
RECURSIVE ExtendWindowOnce(_, _, _, _, _, _, _)
ExtendWindowOnce(p, textLength, m, rejected, startIdx, endIdx, segmentLength) ==
  IF endIdx >= Len(p.points) THEN <<>>
  ELSE IF endIdx \in rejected THEN <<>>
  ELSE LET length == segmentLength + Dist(p.points[endIdx], p.points[endIdx + 1])
       IN IF Fits(length, textLength)
          THEN <<Candidate(p, startIdx, endIdx, length, m)>>
          ELSE ExtendWindowOnce(p, textLength, m, rejected, startIdx,
                                endIdx + 1, length)

\* the inner loop of findCandidates from endIdx on, segmentLength being the
\* length accumulated from startIdx to endIdx - 1
RECURSIVE ExtendWindow(_, _, _, _, _, _, _)
ExtendWindow(p, textLength, m, rejected, startIdx, endIdx, segmentLength) ==
  IF endIdx >= Len(p.points) THEN <<>>
  ELSE IF endIdx \in rejected THEN <<>>
  ELSE LET length == segmentLength + Dist(p.points[endIdx], p.points[endIdx + 1])
           hasRejectedPoint ==
             \E i \in (startIdx + 1)..(endIdx - 1) : i \in rejected
       IN IF hasRejectedPoint THEN <<>>
          ELSE (IF Fits(length, textLength)
                THEN <<Candidate(p, startIdx, endIdx, length, m)>>
                ELSE <<>>)
               \o ExtendWindow(p, textLength, m, rejected, startIdx,
                               endIdx + 1, length)

\* the outer loop of findCandidates from startIdx on
RECURSIVE CandidatesFrom(_, _, _, _, _)
CandidatesFrom(p, textLength, m, rejected, startIdx) ==
  IF startIdx >= Len(p.points) - 1 THEN <<>>
  ELSE (IF startIdx \in rejected THEN <<>>
        ELSE ExtendWindow(p, textLength, m, rejected, startIdx,
                          startIdx + 1, 0))
       \o CandidatesFrom(p, textLength, m, rejected, startIdx + 1)

findCandidates(p, textLength, m) ==
  CandidatesFrom(p, textLength, m, RejectedIndices(m), 0)

\* the inner loop of _findAllValidSegments from index i on: the last index
\* reached before a rejected one, and the length accumulated up to it
RECURSIVE RunFrom(_, _, _, _, _)
RunFrom(points, rejected, i, endIdx, segmentLength) ==
  IF i >= Len(points) \/ i \in rejected
  THEN [endIdx |-> endIdx, length |-> segmentLength]
  ELSE RunFrom(points, rejected, i + 1, i,
               segmentLength + Dist(points[i], points[i + 1]))

\* if (segmentLength > 0 && endIdx > startIdx) without its first conjunct
HasSomeIndices(run, startIdx) == run.endIdx > startIdx

\* if (segmentLength > 0 && endIdx > startIdx): only segments with some length
HasSomeLength(run, startIdx) == run.length > 0 /\ run.endIdx > startIdx

\* the outer loop of _findAllValidSegments from startIdx on; after a segment
\* is pushed the loop continues behind its end
RECURSIVE ValidSegmentsFrom(_, _, _, _)
ValidSegmentsFrom(p, m, rejected, startIdx) ==
  IF startIdx >= Len(p.points) - 1 THEN <<>>
  ELSE IF startIdx \in rejected
       THEN ValidSegmentsFrom(p, m, rejected, startIdx + 1)
  ELSE LET run == RunFrom(p.points, rejected, startIdx + 1, startIdx, 0)
       IN IF HasSomeLength(run, startIdx)
          THEN <<Candidate(p, startIdx, run.endIdx, run.length, m)>>
               \o ValidSegmentsFrom(p, m, rejected, run.endIdx + 1)
          ELSE ValidSegmentsFrom(p, m, rejected, startIdx + 1)

_findAllValidSegments(p, m) ==
  ValidSegmentsFrom(p, m, RejectedIndices(m), 0)

NullPlacement == [kind |-> "null"]

\* the tie-break loop written with >=: the last of the tied candidates wins
RECURSIVE BestByPositionLast(_, _, _)
BestByPositionLast(topCandidates, i, bestCandidate) ==
  IF i > Len(topCandidates) THEN bestCandidate
  ELSE BestByPositionLast(topCandidates, i + 1,
         IF topCandidates[i].scores.position >= bestCandidate.scores.position
         THEN topCandidates[i] ELSE bestCandidate)

\* the tie-break loop of selectOptimal over topCandidates
RECURSIVE BestByPosition(_, _, _)
BestByPosition(topCandidates, i, bestCandidate) ==
  IF i > Len(topCandidates) THEN bestCandidate
  ELSE BestByPosition(topCandidates, i + 1,
         IF topCandidates[i].scores.position > bestCandidate.scores.position
         THEN topCandidates[i] ELSE bestCandidate)

\* let maxScore = -1; raised by every candidate whose score is above it
RECURSIVE MaxScore(_, _, _)
MaxScore(candidates, i, maxScore) ==
  IF i > Len(candidates) THEN maxScore
  ELSE MaxScore(candidates, i + 1,
                IF candidates[i].score > maxScore THEN candidates[i].score
                ELSE maxScore)

selectOptimal(candidates) ==
  IF Len(candidates) = 0 THEN NullPlacement
  ELSE IF Len(candidates) = 1 THEN candidates[1]
  ELSE LET maxScore == MaxScore(candidates, 1, 0 - 1)
           topCandidates == SelectSeq(candidates, LAMBDA c : c.score = maxScore)
       IN IF Len(topCandidates) = 1 THEN topCandidates[1]
          ELSE BestByPosition(topCandidates, 2, topCandidates[1])

\* the loop over allSegments written with >=: the last of the longest wins
RECURSIVE LongestSegmentLast(_, _, _)
LongestSegmentLast(allSegments, i, longestSegment) ==
  IF i > Len(allSegments) THEN longestSegment
  ELSE LongestSegmentLast(allSegments, i + 1,
         IF allSegments[i].segment.length >= longestSegment.segment.length
         THEN allSegments[i] ELSE longestSegment)

\* the loop of findOptimalPlacement over allSegments
RECURSIVE LongestSegment(_, _, _)
LongestSegment(allSegments, i, longestSegment) ==
  IF i > Len(allSegments) THEN longestSegment
  ELSE LongestSegment(allSegments, i + 1,
         IF allSegments[i].segment.length > longestSegment.segment.length
         THEN allSegments[i] ELSE longestSegment)

findOptimalPlacement(ctx, p, t, fontSize, m) ==
  LET textLength == measureTextLength(ctx, t, fontSize)
      candidates == findCandidates(p, textLength, m)
      allSegments == _findAllValidSegments(p, m)
  IN IF Len(candidates) > 0
     THEN [kind |-> "PlacementResult",
           placement |-> selectOptimal(candidates),
           warning |-> "null",
           allCandidates |-> candidates,
           textLength |-> textLength]
     ELSE IF Len(allSegments) = 0
     THEN [kind |-> "PlacementResult",
           placement |-> NullPlacement,
           warning |-> "entire river path has problematic geometry",
           allCandidates |-> <<>>,
           textLength |-> textLength]
     ELSE [kind |-> "PlacementResult",
           placement |-> LongestSegment(allSegments, 1, allSegments[1]),
           warning |-> "exceeds longest suitable segment",
           allCandidates |-> allSegments,
           textLength |-> textLength]

-----------------------------------------------------------------------------
(* TextPlacer.  Distances along the path, glyph widths and glyph positions  *)
(* are fixed-point numbers with Scale units per 1.0; angles are degrees.    *)

\* the value placeText returns, kept apart from the error it can throw
PlacementList(list) == [kind |-> "placements", list |-> list]

Position(x, y, angle) == [kind |-> "position", x |-> x, y |-> y,
                          angle |-> angle]

\* this.measureCtx after getMeasureContext(fontSize): created if there is
\* none, and its font set to the caller's on every call
getMeasureContext(ctx, fontSize) ==
  [(IF ctx = NoContext THEN NewContext ELSE ctx) EXCEPT !.font = fontSize]

Valid == [kind |-> "valid"]

\* the validation that placeText and interpolatePosition share
InvalidPathError(p, startIdx) ==
  IF Len(p.points) = 0
  THEN ErrorValue("Invalid path: path must have points")
  ELSE IF startIdx < 0 \/ startIdx >= Len(p.points)
  THEN ErrorValue("Invalid startIdx")
  ELSE Valid

\* the position at the last point, with the direction of the segment that
\* ends there; points[lastIdx - 1] is undefined on a path of one point
AtLastPoint(points) ==
  LET n == Len(points)
  IN IF n < 2 THEN ErrorValue("TypeError")
     ELSE Position(points[n].x * Scale, points[n].y * Scale,
                   Atan2Deg(points[n].y - points[n - 1].y,
                            points[n].x - points[n - 1].x))

\* the while loop of interpolatePosition, currentIdx a JavaScript index
RECURSIVE WalkPath(_, _, _)
WalkPath(points, currentIdx, remainingDistance) ==
  IF currentIdx < Len(points) - 1
  THEN LET p1 == points[currentIdx + 1]
           p2 == points[currentIdx + 2]
           dx == p2.x - p1.x
           dy == p2.y - p1.y
           segmentLength == Sqrt(dx * dx + dy * dy)
       IN IF remainingDistance <= segmentLength * Scale
          THEN IF segmentLength = 0
               THEN Position(NonFinite, NonFinite, Atan2Deg(dy, dx))
               ELSE Position(
                      p1.x * Scale + (dx * remainingDistance) \div segmentLength,
                      p1.y * Scale + (dy * remainingDistance) \div segmentLength,
                      Atan2Deg(dy, dx))
          ELSE WalkPath(points, currentIdx + 1,
                        remainingDistance - segmentLength * Scale)
  ELSE AtLastPoint(points)

interpolatePosition(p, startIdx, distance) ==
  LET points == p.points
      invalid == InvalidPathError(p, startIdx)
  IN IF IsError(invalid) THEN invalid
     ELSE IF distance = 0
     THEN IF startIdx < Len(points) - 1
          THEN Position(points[startIdx + 1].x * Scale,
                        points[startIdx + 1].y * Scale,
                        Atan2Deg(points[startIdx + 2].y - points[startIdx + 1].y,
                                 points[startIdx + 2].x - points[startIdx + 1].x))
          ELSE AtLastPoint(points)
     ELSE WalkPath(points, startIdx, distance)

\* the left edge of the character's slot, instead of its centre
AnchorAtSlotStart(currentDistance, charWidth) == currentDistance

\* currentDistance + charWidth / 2
AnchorDistance(currentDistance, charWidth) ==
  currentDistance + charWidth \div 2

\* placements.unshift(glyph)
Unshift(list, glyph) == <<glyph>> \o list

\* placements.push(glyph)
Push(list, glyph) == Append(list, glyph)

\* the for loop of placeText from character i on
RECURSIVE PlaceFrom(_, _, _, _, _, _, _)
PlaceFrom(ctx, t, p, startIdx, i, currentDistance, list) ==
  IF i > Len(t) THEN PlacementList(list)
  ELSE LET charWidth == GlyphWidth(ctx, t[i]) * Scale
           position == interpolatePosition(
                         p, startIdx, AnchorDistance(currentDistance, charWidth))
       IN IF IsError(position) THEN position
          ELSE PlaceFrom(ctx, t, p, startIdx, i + 1,
                         currentDistance + charWidth,
                         Push(list, [char |-> t[i],
                                     x |-> position.x,
                                     y |-> position.y,
                                     angle |-> position.angle,
                                     width |-> charWidth]))

\* placeText with the validation errors swallowed
placeTextLenient(ctx, t, p, startIdx, fontSize) ==
  IF Len(t) = 0 \/ IsError(InvalidPathError(p, startIdx))
  THEN PlacementList(<<>>)
  ELSE PlaceFrom(getMeasureContext(ctx, fontSize), t, p, startIdx, 1, 0, <<>>)

placeText(ctx, t, p, startIdx, fontSize) ==
  IF Len(t) = 0 THEN PlacementList(<<>>)
  ELSE IF IsError(InvalidPathError(p, startIdx))
  THEN InvalidPathError(p, startIdx)
  ELSE PlaceFrom(getMeasureContext(ctx, fontSize), t, p, startIdx, 1, 0, <<>>)

\* this.measureCtx after placeText: getMeasureContext is reached only past
\* the early return and the validation
PlacerAfter(ctx, t, p, startIdx, fontSize) ==
  IF Len(t) = 0 \/ IsError(InvalidPathError(p, startIdx)) THEN ctx
  ELSE getMeasureContext(ctx, fontSize)

-----------------------------------------------------------------------------
(* WKTParser.extractCenterline.  A ring is a sequence of <<x, y>> vertices  *)
(* with integer coordinates; sample positions, centres and widths are       *)
(* fixed-point numbers with Scale units per 1.0.  The two branches of the   *)
(* code, sampling along X or along Y, are one here, with the coordinate     *)
(* sampled along and the coordinate measured across picked by isHorizontal. *)

Along(v, isHorizontal) == IF isHorizontal THEN v[1] ELSE v[2]
Across(v, isHorizontal) == IF isHorizontal THEN v[2] ELSE v[1]

\* minX + (width * i) / (numSamples - 1): 0 / 0 is NaN when numSamples is 1
SampleAt(min, extent, i, numSamples) ==
  IF numSamples = 1 THEN NonFinite
  ELSE Fin(min * Scale + (extent * i * Scale) \div (numSamples - 1))

\* _findIntersections: the crossings of the ring's edges with the line at
\* value, each as its coordinate across; every comparison with NaN is false
RECURSIVE IntersectionsFrom(_, _, _, _)
IntersectionsFrom(ring, value, isHorizontal, i) ==
  IF i > Len(ring) THEN <<>>
  ELSE LET p1 == ring[i]
           p2 == ring[(i % Len(ring)) + 1]
           a1 == Along(p1, isHorizontal) * Scale
           a2 == Along(p2, isHorizontal) * Scale
           rest == IntersectionsFrom(ring, value, isHorizontal, i + 1)
       IN IF /\ value.fin
             /\ \/ a1 <= value.v /\ a2 >= value.v
                \/ a1 >= value.v /\ a2 <= value.v
             /\ a2 # a1
          THEN <<Across(p1, isHorizontal) * Scale
                   + ((value.v - a1)
                        * (Across(p2, isHorizontal) - Across(p1, isHorizontal))
                        * Scale) \div (a2 - a1)>> \o rest
          ELSE rest

_findIntersections(ring, value, isHorizontal) ==
  IntersectionsFrom(ring, value, isHorizontal, 1)

\* the sampling loop of extractCenterline from sample i on: a sample with
\* fewer than 2 intersections adds nothing
RECURSIVE SamplesFrom(_, _, _, _, _, _)
SamplesFrom(ring, min, extent, isHorizontal, numSamples, i) ==
  IF i >= numSamples THEN <<>>
  ELSE LET value == SampleAt(min, extent, i, numSamples)
           intersections == _findIntersections(ring, value, isHorizontal)
           lo == MinOver(intersections, 1)
           hi == MaxOver(intersections, 1)
           center == (lo + hi) \div 2
           rest == SamplesFrom(ring, min, extent, isHorizontal, numSamples,
                               i + 1)
       IN IF Len(intersections) >= 2
          THEN <<IF isHorizontal THEN <<value.v, center, hi - lo>>
                 ELSE <<center, value.v, hi - lo>>>> \o rest
          ELSE rest

\* _smoothCenterline: the moving average over a window of 3 entries
_smoothCenterline(centerLine) ==
  IF Len(centerLine) < 3 THEN centerLine
  ELSE [k \in 1..Len(centerLine) |->
          LET start == Max(1, k - 1)
              end == Min(Len(centerLine), k + 1)
              count == end - start + 1
          IN <<SumSeq([j \in 1..count |-> centerLine[start + j - 1][1]])
                 \div count,
               SumSeq([j \in 1..count |-> centerLine[start + j - 1][2]])
                 \div count,
               SumSeq([j \in 1..count |-> centerLine[start + j - 1][3]])
                 \div count>>]

CenterlineList(list) == [kind |-> "centerline", list |-> list]

\* a variant that takes one sample per vertex
extractCenterlinePerVertex(ring) ==
  IF Len(ring) < 3 THEN ErrorValue("Invalid polygon coordinates")
  ELSE LET xs == [i \in 1..Len(ring) |-> ring[i][1]]
           ys == [i \in 1..Len(ring) |-> ring[i][2]]
           minX == MinOver(xs, 1)
           minY == MinOver(ys, 1)
           width == MaxOver(xs, 1) - minX
           height == MaxOver(ys, 1) - minY
           isHorizontal == width > height
           numSamples == Min(MaxSamples, Len(ring))
       IN CenterlineList(_smoothCenterline(
            IF isHorizontal
            THEN SamplesFrom(ring, minX, width, TRUE, numSamples, 0)
            ELSE SamplesFrom(ring, minY, height, FALSE, numSamples, 0)))

extractCenterline(ring) ==
  IF Len(ring) < 3 THEN ErrorValue("Invalid polygon coordinates")
  ELSE LET xs == [i \in 1..Len(ring) |-> ring[i][1]]
           ys == [i \in 1..Len(ring) |-> ring[i][2]]
           minX == MinOver(xs, 1)
           minY == MinOver(ys, 1)
           width == MaxOver(xs, 1) - minX
           height == MaxOver(ys, 1) - minY
           isHorizontal == width > height
           numSamples == Min(MaxSamples, Len(ring) \div 2)
       IN CenterlineList(_smoothCenterline(
            IF isHorizontal
            THEN SamplesFrom(ring, minX, width, TRUE, numSamples, 0)
            ELSE SamplesFrom(ring, minY, height, FALSE, numSamples, 0)))

-----------------------------------------------------------------------------
(* WKT text.  A text is its geometry keyword and the pieces between the     *)
(* commas of its coordinate string: a piece is a vertex <<x, y>>, or a      *)
(* piece that does not hold two numbers, written <<>>.                      *)

WktText(keyword, pairs) == [kind |-> "string", keyword |-> keyword,
                            pairs |-> pairs]

MalformedPair == <<>>

\* parts.length >= 2 && !isNaN(x) && !isNaN(y)
IsPair(pair) == Len(pair) >= 2

CoordinateList(list) == [kind |-> "coordinates", list |-> list]

\* parsePolygon: the pieces that hold two numbers, in their order; the
\* error it throws is returned as a value
parsePolygon(wktString) ==
  IF wktString.keyword # "POLYGON"
  THEN ErrorValue("Only POLYGON geometry is supported")
  ELSE LET coordinates == SelectSeq(wktString.pairs, IsPair)
       IN IF Len(coordinates) < 3
          THEN ErrorValue("POLYGON must have at least 3 coordinates")
          ELSE CoordinateList(coordinates)

\* a fixed-point number of the centerline as a number of the coordinate
\* array: the numbers of a river path are whole units in this model, a
\* fraction of a unit is dropped
WholeUnits(v) == Fin(v \div Scale)

\* the centerline entries [x, y, width] as entries of a coordinate array
CenterlineCoordinates(list) ==
  [k \in 1..Len(list) |->
     <<WholeUnits(list[k][1]), WholeUnits(list[k][2]),
       WholeUnits(list[k][3])>>]

\* the try block of parse for a string: the coordinates of the centerline,
\* or the error made from what parsePolygon or extractCenterline throws
WktCoordinates(data) ==
  LET polygonCoords == parsePolygon(data)
  IN IF IsError(polygonCoords) THEN ErrorValue("WKT parsing failed")
     ELSE LET coordinates == extractCenterline(polygonCoords.list)
          IN IF IsError(coordinates) THEN ErrorValue("WKT parsing failed")
             ELSE coordinates

\* parse(data) for a string
parseString(data) ==
  LET coordinates == WktCoordinates(data)
  IN IF IsError(coordinates) THEN coordinates
     ELSE parse(CenterlineCoordinates(coordinates.list))

-----------------------------------------------------------------------------
(* The state machine: one run of the pipeline on an input and a second run  *)
(* on the river it left, single calls of selectOptimal, placeText,          *)
(* extractCenterline and parse on a WKT text, and the operations of a       *)
(* UIController in any order.                                               *)

None == [kind |-> "none"]

Chars == {"i", "m"}

Texts == UNION {[1..k -> Chars] : k \in 0..MaxTextLen}

\* the straight river of five points, 100 apart, and its label
StraightRiver == [k \in 1..5 |-> <<Fin(100 * (k - 1)), Fin(0)>>]
StraightRiverName == <<"T", "e", "s", "t">>

\* the river of three points with a right-angle turn, its legs 10 long
TurnRiver == <<<<Fin(0), Fin(0)>>, <<Fin(10), Fin(0)>>, <<Fin(10), Fin(10)>>>>

\* the river of eleven points spaced one apart
UniformRiver == [k \in 1..11 |-> <<Fin(k - 1), Fin(0)>>]

\* the straight river of six points
LongStraightRiver == [k \in 1..6 |-> <<Fin(100 * (k - 1)), Fin(0)>>]

Scenarios == {StraightRiver, LongStraightRiver, TurnRiver, UniformRiver}

\* the labels a run is made with
NamesFor(data) ==
  IF data \in {StraightRiver, LongStraightRiver}
  THEN Texts \cup {StraightRiverName} ELSE Texts

\* a candidate as selectOptimal reads it: its place in the list (kept in the
\* segment), its score and its position score
ListedCandidate(k, score, position) ==
  [kind |-> "Candidate",
   segment |-> Segment(k, k + 1, 1, "null"),
   score |-> score,
   scores |-> [curvature |-> score, width |-> score, position |-> position,
               straightness |-> score],
   centerPoint |-> [x |-> 0, y |-> 0]]

ScoreValues == {0, 50 * Scale, 100 * Scale}

CandidateLists ==
  UNION {{[k \in 1..n |-> ListedCandidate(k, sc[k], ps[k])] :
            sc \in [1..n -> ScoreValues], ps \in [1..n -> ScoreValues]} :
         n \in 0..MaxCands}

\* the paths placeText is called on by itself: rivers of MinPoints to
\* PlacePoints points without widths, and a path without points
PlacePoints == MinPoints + 1
MoveSlots(n) == {s \in GoodSlots(n) : s.kind \notin WidthKinds}
EmptyPath == [kind |-> "RiverPath", points |-> <<>>, widths |-> <<>>,
              length |-> 0,
              bounds |-> [minX |-> 0, maxX |-> 0, minY |-> 0, maxY |-> 0]]
PlacePaths ==
  {EmptyPath} \cup
  UNION {{parse(BuildInput(n, "absent", q[1], q[2])) :
            q \in {r \in MoveSlots(n) \X MoveSlots(n) :
                     SlotsInOrder(r[1], r[2])}} :
         n \in MinPoints..PlacePoints}

\* the labels placeText is called with by itself
Labels == UNION {[1..k -> Chars] : k \in 0..(MaxTextLen + 1)}

\* the rings extractCenterline is called on: up to MaxVertices vertices,
\* each a corner of a 4 by 2 rectangle
Corners == {<<0, 0>>, <<4, 0>>, <<4, 2>>, <<0, 2>>}
Rings == UNION {[1..k -> Corners] : k \in 0..MaxVertices}

-----------------------------------------------------------------------------
(* UIController.  The controller is a record of its fields; the names of    *)
(* rivers are sequences of characters.  Of the example rivers the straight  *)
(* one is followed, the one whose segments are parallel to an axis.         *)

NoRiver == [kind |-> "null"]

DefaultName == <<"R", "i", "v", "e", "r", " ", "N", "a", "m", "e">>
ExampleName ==
  <<"S", "t", "r", "a", "i", "g", "h", "t", " ", "R", "i", "v", "e", "r">>
HackathonName ==
  <<"H", "a", "c", "k", "a", "t", "h", "o", "n", " ", "R", "i", "v", "e", "r">>
CustomWktName ==
  <<"C", "u", "s", "t", "o", "m", " ", "W", "K", "T", " ", "R", "i", "v", "e",
    "r">>

\* exampleRivers.straight.coordinates
ExampleCoordinates ==
  LET widths == <<20, 22, 21, 23, 22, 21, 20>>
  IN [k \in 1..7 |-> <<Fin(100 * k), Fin(300), Fin(widths[k])>>]

\* the coordinates processCustomInput reads from its text: a river, and an
\* array of two points
CustomInputs == {TurnRiver, SubSeq(TurnRiver, 1, 2)}

\* a polygon of six vertices around a straight river 40 long and 10 wide
BankRing == <<<<0, 0>>, <<20, 0>>, <<40, 0>>, <<40, 10>>, <<20, 10>>,
              <<0, 10>>>>

\* the WKT texts given to the controller: the polygon of six vertices and a
\* polygon of four
WktInputs == {WktText("POLYGON", BankRing),
              WktText("POLYGON", SubSeq(BankRing, 3, 6))}

\* what a fetch resolves to: a failed response, or the text of a file
Responses == {[ok |-> FALSE, body |-> WktText("", <<>>)]}
             \cup {[ok |-> TRUE, body |-> t] : t \in WktInputs}

\* the controller after its constructor, without this.currentRiver and
\* this.currentRiverName, which are the variables path and text.  pending
\* holds one entry for each loadWKTFile call that awaits its response: TRUE
\* while no other load has been requested since; selected is the river and
\* the name that the most recently requested load left when it finished
NewController ==
  [kind |-> "UIController",
   showRejectedAreas |-> TRUE,
   showCandidates |-> TRUE,
   showMetrics |-> TRUE,
   pending |-> <<>>,
   selected |-> [river |-> NoRiver, name |-> DefaultName],
   error |-> "",
   thrown |-> FALSE,
   calls |-> <<>>]

IsRiver(river) == river.kind = "RiverPath"

\* metrics.rejectedSegments is truthy: the metrics object has the field
HasRejectedSegments(m) == "rejectedSegments" \in DOMAIN m

\* the calls renderPipeline makes on this.renderer, in their order
DrawCalls(showRejectedAreas, showCandidates, m, r, characterPlacements) ==
  <<"clear", "drawRiver">>
    \o (IF showRejectedAreas /\ HasRejectedSegments(m)
        THEN <<"drawRejectedAreas">> ELSE <<>>)
    \o (IF showCandidates /\ Len(r.allCandidates) > 0
        THEN <<"drawCandidates">> ELSE <<>>)
    \o (IF Len(characterPlacements.list) > 0 THEN <<"drawText">> ELSE <<>>)

\* the pending fetches once another load is requested
Stale(pending) == [k \in 1..Len(pending) |-> FALSE]


InitPipeline ==
  /\ pc = "input"
  /\ \/ \E n \in 0..MaxPoints, base \in Bases :
          \E s1 \in GoodSlots(n), s2 \in GoodSlots(n) \cup BadSlots(n) :
            /\ SlotsInOrder(s1, s2)
            /\ s2.kind \in BadKinds => s1.kind \notin MoveKinds
            /\ input = BuildInput(n, base, s1, s2)
     \/ input \in Scenarios
  /\ path = None
  /\ cands = <<>>
  /\ polygon = <<>>

InitSelect ==
  /\ pc = "candidates"
  /\ input = <<>>
  /\ path = None
  /\ cands \in CandidateLists
  /\ polygon = <<>>

InitPlace ==
  /\ pc = "place"
  /\ input = <<>>
  /\ path \in PlacePaths
  /\ cands = <<>>
  /\ polygon = <<>>

InitExtract ==
  /\ pc = "ring"
  /\ input = <<>>
  /\ path = None
  /\ cands = <<>>
  /\ polygon \in Rings


Init ==
  /\ InitPipeline \/ InitSelect \/ InitPlace \/ InitExtract
  /\ ui = None
  /\ metrics = None
  /\ text = <<>>
  /\ result = None
  /\ chosen = None
  /\ scorer = NoContext
  /\ placer = NoContext
  /\ fromIdx = 0
  /\ placements = None
  /\ first = None
  /\ centerline = None

\* path = parser.parse(data)
Parse ==
  /\ pc = "input"
  /\ path' = parse(input)
  /\ pc' = IF IsError(path') THEN "rejected" ELSE "parsed"
  /\ UNCHANGED <<input, metrics, text, result, cands, chosen, scorer, placer,
                 fromIdx, placements, first, polygon, centerline,
                 ui>>

\* metrics = analyzer.analyzeGeometry(path)
AnalyzeGeometry ==
  /\ pc = "parsed"
  /\ metrics' = analyzeGeometry(path)
  /\ pc' = "analyzed"
  /\ UNCHANGED <<input, path, text, result, cands, chosen, scorer, placer,
                 fromIdx, placements, first, polygon, centerline,
                 ui>>

\* result = scorer.findOptimalPlacement(path, text, fontSize, metrics)
FindOptimalPlacement ==
  /\ pc = "analyzed"
  /\ \E t \in NamesFor(input) :
       /\ text' = t
       /\ result' = findOptimalPlacement(scorer, path, t, FontSize, metrics)
  /\ scorer' = ScorerContext(scorer, FontSize)
  /\ pc' = "placed"
  /\ UNCHANGED <<input, path, metrics, cands, chosen, placer, fromIdx,
                 placements, first, polygon, centerline,
                 ui>>

\* the call of placeText in the pipeline: made only with a placement, at
\* its segment's startIdx; characterPlacements is [] otherwise
PlacementsOf(ctx, t, p, r) ==
  IF r.placement.kind = "Candidate"
  THEN placeText(ctx, t, p, r.placement.segment.startIdx, FontSize)
  ELSE PlacementList(<<>>)

PlacerOf(ctx, t, p, r) ==
  IF r.placement.kind = "Candidate"
  THEN PlacerAfter(ctx, t, p, r.placement.segment.startIdx, FontSize)
  ELSE ctx

\* characterPlacements = placer.placeText(name, river, startIdx, 16)
PlaceText ==
  /\ pc = "placed"
  /\ placements' = PlacementsOf(placer, text, path, result)
  /\ placer' = PlacerOf(placer, text, path, result)
  /\ fromIdx' = IF result.placement.kind = "Candidate"
                 THEN result.placement.segment.startIdx ELSE fromIdx
  /\ pc' = "rendered"
  /\ UNCHANGED <<input, path, metrics, text, result, cands, chosen, scorer,
                 first, polygon, centerline,
                 ui>>

\* the rivers on which a second run is followed: up to seven points, the
\* fewest that leave three indices between the edge regions
RerunPoints == MinPoints + 4

\* the pipeline run once more on the river and the label of the first run
RunAgain ==
  /\ pc = "rendered"
  /\ Len(path.points) <= RerunPoints
  /\ first' = [metrics |-> metrics, result |-> result,
               placements |-> placements]
  /\ metrics' = analyzeGeometry(path)
  /\ result' = findOptimalPlacement(scorer, path, text, FontSize, metrics')
  /\ scorer' = ScorerContext(scorer, FontSize)
  /\ placements' = PlacementsOf(placer, text, path, result')
  /\ placer' = PlacerOf(placer, text, path, result')
  /\ fromIdx' = IF result'.placement.kind = "Candidate"
                 THEN result'.placement.segment.startIdx ELSE fromIdx
  /\ pc' = "rerun"
  /\ UNCHANGED <<input, path, text, cands, chosen, polygon, centerline,
                 ui>>

\* placer.placeText(text, path, startIdx, fontSize), called by itself; the
\* error it throws is kept in placements
PlaceTextCall ==
  /\ pc = "place"
  /\ \E t \in Labels, s \in (0 - 1)..Len(path.points) :
       /\ text' = t
       /\ fromIdx' = s
       /\ placements' = placeText(placer, t, path, s, FontSize)
       /\ placer' = PlacerAfter(placer, t, path, s, FontSize)
  /\ pc' = "glyphs"
  /\ UNCHANGED <<input, path, metrics, result, cands, chosen, scorer, first,
                 polygon, centerline,
                 ui>>

\* centerline = wktParser.extractCenterline(polygonCoords); the error it
\* throws is kept in centerline
ExtractCenterline ==
  /\ pc = "ring"
  /\ centerline' = extractCenterline(polygon)
  /\ pc' = "extracted"
  /\ UNCHANGED <<input, path, metrics, text, result, cands, chosen, scorer,
                 placer, fromIdx, placements, first, polygon,
                 ui>>

\* the texts on a ring: its vertices as a polygon, the same after a piece
\* without two numbers, and the same under another geometry keyword
TextsOf(ring) ==
  {WktText("POLYGON", ring),
   WktText("POLYGON", <<MalformedPair>> \o ring),
   WktText("LINESTRING", ring)}

\* path = parser.parse(wktString) on a text of the ring; centerline keeps
\* the local coordinates of the call
ParseString ==
  /\ pc = "ring"
  /\ \E data \in TextsOf(polygon) :
       /\ input' = data
       /\ centerline' = WktCoordinates(data)
       /\ path' = parseString(data)
  /\ pc' = "wkt"
  /\ UNCHANGED <<metrics, text, result, cands, chosen, scorer, placer,
                 fromIdx, placements, first, polygon,
                 ui>>

\* chosen = scorer.selectOptimal(candidates)
SelectOptimal ==
  /\ pc = "candidates"
  /\ chosen' = selectOptimal(cands)
  /\ pc' = "selected"
  /\ UNCHANGED <<input, path, metrics, text, result, cands, scorer, placer,
                 fromIdx, placements, first, polygon, centerline,
                 ui>>

\* renderPipeline with this.currentRiver a river path: its locals metrics,
\* result and characterPlacements, and the measurement contexts it leaves
RenderPipeline ==
  /\ metrics' = analyzeGeometry(path')
  /\ result' = findOptimalPlacement(scorer, path', text', FontSize, metrics')
  /\ scorer' = ScorerContext(scorer, FontSize)
  /\ placements' = PlacementsOf(placer, text', path', result')
  /\ placer' = PlacerOf(placer, text', path', result')
  /\ fromIdx' = IF result'.placement.kind = "Candidate"
                 THEN result'.placement.segment.startIdx ELSE fromIdx

\* renderPipeline not called, or called on a value without points: it
\* throws in analyzeGeometry, before anything is computed or drawn
NoPipeline ==
  /\ metrics' = None
  /\ result' = None
  /\ placements' = None
  /\ UNCHANGED <<scorer, placer, fromIdx>>

\* this.renderPipeline(startTime)
Render == IF IsRiver(path') THEN RenderPipeline ELSE NoPipeline

\* the renderer calls of that renderPipeline
CallsAfter(showRejectedAreas, showCandidates) ==
  IF IsRiver(path')
  THEN DrawCalls(showRejectedAreas, showCandidates, metrics', result',
                 placements')
  ELSE <<>>

\* clearError() after a renderPipeline that returned, displayError(message)
\* from the catch block after one that threw
ErrorAfter(message) == IF IsRiver(path') THEN "" ELSE message

\* the river and the name a load has left
Selection == [river |-> path', name |-> text']

\* loadExample(exampleId), with the id of an example and with another id
LoadExample ==
  /\ pc = "ui"
  /\ \E exampleId \in {"straight", "missing"} :
       IF exampleId # "straight"
       THEN /\ UNCHANGED <<path, text>>
            /\ NoPipeline
            /\ ui' = [ui EXCEPT !.error = "Example not found",
                                !.thrown = FALSE,
                                !.calls = <<>>]
       ELSE /\ path' = parse(ExampleCoordinates)
            /\ text' = ExampleName
            /\ Render
            /\ ui' = [ui EXCEPT
                   !.pending = Stale(@),
                   !.selected = Selection,
                   !.error = ErrorAfter("Failed to load example"),
                   !.thrown = FALSE,
                   !.calls = CallsAfter(ui.showRejectedAreas,
                                        ui.showCandidates)]
  /\ UNCHANGED <<pc, input, cands, chosen, first, polygon, centerline>>

\* processCustomInput(coordinatesStr), coordinates being what JSON.parse or
\* the split of the text gives
ProcessCustomInput ==
  /\ pc = "ui"
  /\ \E coordinates \in CustomInputs : path' = parse(coordinates)
  /\ UNCHANGED text
  /\ Render
  /\ ui' = [ui EXCEPT
         !.pending = Stale(@),
         !.selected = Selection,
         !.error = ErrorAfter("Failed to parse custom input"),
         !.thrown = FALSE,
         !.calls = CallsAfter(ui.showRejectedAreas, ui.showCandidates)]
  /\ UNCHANGED <<pc, input, cands, chosen, first, polygon, centerline>>

\* loadWKTFromString(wktString)
LoadWKTFromString ==
  /\ pc = "ui"
  /\ \E wktString \in WktInputs : path' = parseString(wktString)
  /\ text' = IF IsError(path') THEN text ELSE CustomWktName
  /\ Render
  /\ ui' = [ui EXCEPT
         !.pending = Stale(@),
         !.selected = Selection,
         !.error = ErrorAfter("Invalid WKT file"),
         !.thrown = FALSE,
         !.calls = CallsAfter(ui.showRejectedAreas, ui.showCandidates)]
  /\ UNCHANGED <<pc, input, cands, chosen, first, polygon, centerline>>

\* loadWKTFile(filePath) up to its await fetch(filePath)
LoadWKTFile ==
  /\ pc = "ui"
  /\ Len(ui.pending) < MaxPending
  /\ NoPipeline
  /\ ui' = [ui EXCEPT !.pending = Append(Stale(@), TRUE),
                      !.thrown = FALSE,
                      !.calls = <<>>]
  /\ UNCHANGED <<pc, input, path, text, cands, chosen, first, polygon,
                 centerline>>

\* loadWKTFile from the response of its fetch on: the k-th pending call
\* resumes with a response
ResumeLoadWKTFile ==
  /\ pc = "ui"
  /\ \E k \in 1..Len(ui.pending), response \in Responses :
       /\ path' = IF response.ok THEN parseString(response.body) ELSE path
       /\ text' = IF response.ok /\ ~IsError(path') THEN HackathonName
                  ELSE text
       /\ IF response.ok THEN Render ELSE NoPipeline
       /\ ui' = [ui EXCEPT
              !.pending = SubSeq(@, 1, k - 1) \o SubSeq(@, k + 1, Len(@)),
              !.selected = IF ui.pending[k] THEN Selection ELSE @,
              !.error = IF response.ok
                        THEN ErrorAfter("Failed to load WKT file")
                        ELSE "Failed to load WKT file",
              !.thrown = FALSE,
              !.calls = IF response.ok
                        THEN CallsAfter(ui.showRejectedAreas,
                                        ui.showCandidates)
                        ELSE <<>>]
  /\ UNCHANGED <<pc, input, cands, chosen, first, polygon, centerline>>

\* updateRiverName(name), with the empty name and with a name
UpdateRiverName ==
  /\ pc = "ui"
  /\ UNCHANGED path
  /\ \E name \in {<<>>, StraightRiverName} :
       IF path = NoRiver
       THEN /\ UNCHANGED text
            /\ NoPipeline
            /\ ui' = [ui EXCEPT !.error = "Please load a river first",
                                !.thrown = FALSE,
                                !.calls = <<>>]
       ELSE /\ text' = IF name = <<>> THEN DefaultName ELSE name
            /\ Render
            /\ ui' = [ui EXCEPT
                   !.selected = [@ EXCEPT !.name = text'],
                   !.error = ErrorAfter("Failed to update river name"),
                   !.thrown = FALSE,
                   !.calls = CallsAfter(ui.showRejectedAreas,
                                        ui.showCandidates)]
  /\ UNCHANGED <<pc, input, cands, chosen, first, polygon, centerline>>

\* toggleVisualization(option, enabled): its renderPipeline call is outside
\* any try block, so what that call throws leaves the handler
ToggleVisualization ==
  /\ pc = "ui"
  /\ UNCHANGED <<path, text>>
  /\ IF path # NoRiver THEN Render ELSE NoPipeline
  /\ \E option \in {"rejectedAreas", "candidates"}, enabled \in BOOLEAN :
       ui' = [ui EXCEPT
         !.showRejectedAreas = IF option = "rejectedAreas" THEN enabled ELSE @,
         !.showCandidates = IF option = "candidates" THEN enabled ELSE @,
         !.thrown = IsError(path),
         !.calls = CallsAfter(
                     IF option = "rejectedAreas" THEN enabled
                     ELSE ui.showRejectedAreas,
                     IF option = "candidates" THEN enabled
                     ELSE ui.showCandidates)]
  /\ UNCHANGED <<pc, input, cands, chosen, first, polygon, centerline>>

Next ==
  \/ Parse
  \/ AnalyzeGeometry
  \/ FindOptimalPlacement
  \/ PlaceText
  \/ RunAgain
  \/ PlaceTextCall
  \/ ExtractCenterline
  \/ ParseString
  \/ SelectOptimal

Spec == Init /\ [][Next]_vars

\* main.js: uiController = new UIController('riverCanvas'), and the
\* operations its handlers call, in any order
InitUI ==
  /\ pc = "ui"
  /\ ui = NewController
  /\ input = <<>>
  /\ path = NoRiver
  /\ metrics = None
  /\ text = DefaultName
  /\ result = None
  /\ cands = <<>>
  /\ chosen = None
  /\ scorer = NoContext
  /\ placer = NoContext
  /\ fromIdx = 0
  /\ placements = None
  /\ first = None
  /\ polygon = <<>>
  /\ centerline = None

NextUI ==
  \/ LoadExample
  \/ ProcessCustomInput
  \/ LoadWKTFromString
  \/ LoadWKTFile
  \/ ResumeLoadWKTFile
  \/ UpdateRiverName
  \/ ToggleVisualization

SpecUI == InitUI /\ [][NextUI]_vars

-----------------------------------------------------------------------------
(* Properties.  The predicates below are stated on the values kept in the   *)
(* state, not with the operators that produced them.                        *)

IsPath == pc \in {"parsed", "analyzed", "placed"}
Placed == pc = "placed"
Fitted == Placed /\ result.warning = "null"
FellBack == Placed /\ result.warning # "null"

LastIdx == Len(path.points) - 1

InRegion(i, region) == region.startIdx <= i /\ i <= region.endIdx

\* index i lies in a sharp-curve, a narrow-section or an edge region
Rejected(i) ==
  \/ \E j \in 1..Len(metrics.sharpCurves) : InRegion(i, metrics.sharpCurves[j])
  \/ \E j \in 1..Len(metrics.narrowSections) :
       InRegion(i, metrics.narrowSections[j])
  \/ InRegion(i, metrics.edgeSections.start)
  \/ InRegion(i, metrics.edgeSections.end)

Clear(a, b) == \A i \in a..b : ~Rejected(i)

RejectedSet == {i \in 0..LastIdx : Rejected(i)}

Arclength(a, b) == SegmentLength(path.points, a, b)

TextWidth == SumSeq([k \in 1..Len(text) |-> AdvanceWidth(text[k])])

\* the windows [s, e] without a rejected index
Windows ==
  LET rej == RejectedSet
  IN {w \in (0..LastIdx) \X (0..LastIdx) :
        w[1] < w[2] /\ (w[1]..w[2]) \cap rej = {}}

FittingWindows ==
  LET width == TextWidth
  IN {w \in Windows : Arclength(w[1], w[2]) >= width}

\* the maximal runs of two or more consecutive non-rejected indices
Runs ==
  LET rej == RejectedSet
  IN {w \in Windows : /\ (w[1] = 0 \/ (w[1] - 1) \in rej)
                      /\ (w[2] = LastIdx \/ (w[2] + 1) \in rej)}

WindowOf(c) == <<c.segment.startIdx, c.segment.endIdx>>

LongestFirst(r, rs) ==
  /\ r \in rs
  /\ LET length == Arclength(r[1], r[2])
     IN \A q \in rs :
          /\ Arclength(q[1], q[2]) <= length
          /\ Arclength(q[1], q[2]) = length => r[1] <= q[1]

\* C1: no candidate of findCandidates has a rejected index in its window
\* [startIdx, endIdx], at a boundary or inside
C1_CandidatesAvoidRejected ==
  Fitted =>
    \A k \in 1..Len(result.allCandidates) :
      LET c == result.allCandidates[k].segment
      IN /\ 0 <= c.startIdx /\ c.startIdx < c.endIdx /\ c.endIdx <= LastIdx
         /\ Clear(c.startIdx, c.endIdx)

\* a candidate of three or more indices that ends right before a narrow
\* section in the middle of the path
C1_Witness ==
  /\ Fitted
  /\ \E k \in 1..Len(result.allCandidates) :
       LET c == result.allCandidates[k].segment
       IN /\ c.endIdx - c.startIdx >= 2
          /\ \E j \in 1..Len(metrics.narrowSections) :
               /\ metrics.narrowSections[j].startIdx = c.endIdx + 1
               /\ ~InRegion(c.endIdx + 1, metrics.edgeSections.end)

\* c is in the list, no candidate of the list scores higher, none of the top
\* scorers has a higher position score, and none that equals c in both comes
\* earlier in the list
OptimalIn(c, list) ==
  \E k \in 1..Len(list) :
    /\ list[k] = c
    /\ \A j \in 1..Len(list) :
         /\ list[j].score <= c.score
         /\ list[j].score = c.score =>
              list[j].scores.position <= c.scores.position
         /\ (j < k /\ list[j].score = c.score) =>
              list[j].scores.position < c.scores.position

\* C2: selectOptimal returns a candidate of maximal overall score, of the
\* highest position score among those, and the first in the list of these
C2_SelectOptimalIsBest ==
  /\ (pc = "selected" /\ Len(cands) > 0) => OptimalIn(chosen, cands)
  /\ Fitted => OptimalIn(result.placement, result.allCandidates)

\* three candidates, the last two tied on the top score and on the position
\* score, the second chosen
C2_Witness ==
  /\ pc = "selected"
  /\ Len(cands) = 3
  /\ cands[1].score < cands[2].score
  /\ cands[2].score = cands[3].score
  /\ cands[2].scores.position = cands[3].scores.position
  /\ cands[1].scores.position > cands[2].scores.position
  /\ chosen = cands[2]

\* C3 as claimed: every placement returned by findOptimalPlacement is at
\* least as long as the measured text
C3_EveryPlacementFitsText ==
  (Placed /\ result.placement.kind = "Candidate") =>
    result.placement.segment.length >= TextWidth

\* C3 amended: a placement returned with a null warning is at least as long
\* as the measured text, its length being the arclength of its window
C3_FittedPlacementFitsText ==
  Fitted =>
    /\ result.placement.kind = "Candidate"
    /\ result.placement.segment.length >= TextWidth
    /\ result.placement.segment.length =
         Arclength(result.placement.segment.startIdx,
                   result.placement.segment.endIdx)

\* a non-empty label placed on a window of exactly its length, shorter
\* windows existing on the path
C3_Witness ==
  /\ Fitted
  /\ TextWidth > 1
  /\ result.placement.segment.length = TextWidth
  /\ \E w \in Windows : Arclength(w[1], w[2]) < TextWidth

\* C4 as claimed: without a fitting candidate but with a run of non-rejected
\* indices, the placement is the longest run (the first of the longest) and
\* the warning is the 'exceeds' one
C4_FallbackIsLongestRun ==
  Placed =>
    LET runs == Runs
    IN (FittingWindows = {} /\ runs # {}) =>
         /\ result.warning = "exceeds longest suitable segment"
         /\ result.placement.kind = "Candidate"
         /\ LongestFirst(WindowOf(result.placement), runs)

\* C4 amended: the same when some run has a positive arclength
C4_FallbackIsLongestRunOfSomeLength ==
  Placed =>
    LET runs == Runs
    IN (FittingWindows = {} /\ \E r \in runs : Arclength(r[1], r[2]) > 0) =>
         /\ result.warning = "exceeds longest suitable segment"
         /\ result.placement.kind = "Candidate"
         /\ LongestFirst(WindowOf(result.placement), runs)
         /\ result.placement.segment.length =
              Arclength(result.placement.segment.startIdx,
                        result.placement.segment.endIdx)
         /\ result.placement.segment.length < TextWidth

\* two runs of the same positive length, the first returned
C4_Witness ==
  /\ FellBack
  /\ result.placement.kind = "Candidate"
  /\ \E q \in Runs :
       /\ q[1] > result.placement.segment.endIdx
       /\ Arclength(q[1], q[2]) = result.placement.segment.length
  /\ result.placement.segment.length > 0

\* C5 as claimed: no placement exactly when every index is rejected
C5_NullIffAllRejected ==
  Placed =>
    (result.placement.kind = "null" <=> \A i \in 0..LastIdx : Rejected(i))

\* two neighbouring non-rejected indices that a label of this width can be
\* placed between: at a positive distance, or at any distance for a label of
\* no width
Placeable ==
  LET rej == RejectedSet
      width == TextWidth
  IN \E i \in 0..(LastIdx - 1) :
       /\ i \notin rej /\ (i + 1) \notin rej
       /\ Arclength(i, i + 1) > 0 \/ width = 0

\* C5 amended: no placement, with the 'problematic' warning, exactly when
\* there are no two neighbouring non-rejected indices at a positive distance
\* (for a label of no width: no two neighbouring non-rejected indices)
C5_NullIffNothingPlaceable ==
  Placed =>
    /\ result.placement.kind = "null" <=> ~Placeable
    /\ result.placement.kind = "null" <=>
         result.warning = "entire river path has problematic geometry"
    /\ result.placement.kind = "null" => result.allCandidates = <<>>

\* no placement on a path that has a non-rejected index
C5_Witness ==
  /\ Placed
  /\ result.placement.kind = "null"
  /\ \E i \in 0..LastIdx : ~Rejected(i)
  /\ \E i \in 0..(LastIdx - 1) : Clear(i, i + 1)

\* C6: findOptimalPlacement returns a result for every valid path and label;
\* its warning is null exactly when a fitting window exists, and then
\* allCandidates lists the fitting windows, each once
C6_ResultAlwaysReturned ==
  Placed =>
    LET fitting == FittingWindows
    IN /\ result.kind = "PlacementResult"
       /\ result.placement.kind \in {"Candidate", "null"}
       /\ result.textLength = TextWidth
       /\ result.warning = "null" <=> fitting # {}
       /\ result.warning = "null" =>
            /\ {WindowOf(result.allCandidates[k]) :
                  k \in 1..Len(result.allCandidates)} = fitting
            /\ Len(result.allCandidates) = Cardinality(fitting)

\* a label that fits some windows of the path and not others, one of the
\* fitting windows having exactly its length
C6_Witness ==
  /\ Fitted
  /\ FittingWindows # Windows
  /\ \E w \in FittingWindows : Arclength(w[1], w[2]) = TextWidth
  /\ Len(result.allCandidates) >= 2

InRange(v) == 0 <= v /\ v <= 100 * Scale

\* C7: the four component scores and the overall score of every candidate
\* lie in [0, 100]
C7_ScoresInRange ==
  Placed =>
    \A k \in 1..Len(result.allCandidates) :
      LET c == result.allCandidates[k]
      IN /\ InRange(c.score)
         /\ InRange(c.scores.curvature)
         /\ InRange(c.scores.width)
         /\ InRange(c.scores.position)
         /\ InRange(c.scores.straightness)
         /\ c.score = (4 * c.scores.curvature + 2 * c.scores.width
                         + 2 * c.scores.position + 2 * c.scores.straightness)
                        \div 10

\* a candidate of findCandidates whose straightness score is 0 and whose
\* width score is 100
C7_Witness ==
  /\ Fitted
  /\ \E k \in 1..Len(result.allCandidates) :
       /\ result.allCandidates[k].scores.straightness = 0
       /\ result.allCandidates[k].scores.width = 100 * Scale

HasWidth(entry) == Len(entry) = 3

\* C8 as claimed: points is as long as the input and, when an entry carries
\* a width, widths is as long as points, with entry i's width or null at i
C8_WidthsPreservedPerPoint ==
  IsPath =>
    /\ Len(path.points) = Len(input)
    /\ (\E i \in 1..Len(input) : HasWidth(input[i])) =>
         /\ Len(path.widths) = Len(path.points)
         /\ \A i \in 1..Len(input) :
              path.widths[i] =
                IF HasWidth(input[i]) THEN Num(input[i][3].v) ELSE Null

\* an entry that parse has to reject
Malformed(entry) ==
  \/ Len(entry) < 2
  \/ Len(entry) > 3
  \/ \E j \in 1..Len(entry) : ~entry[j].fin

\* C9: an input with fewer than 3 entries, a non-finite coordinate or width,
\* or an entry of fewer than 2 or more than 3 fields is answered with an
\* error, never with a RiverPath
C9_InvalidInputRejected ==
  (pc \in {"rejected", "parsed", "analyzed", "placed", "rendered", "rerun"}
     /\ (Len(input) < 3 \/ \E i \in 1..Len(input) : Malformed(input[i]))) =>
    /\ pc = "rejected"
    /\ IsError(path)

\* three or more entries, all of 2 or 3 fields, the only defect a non-finite
\* width
C9_Witness ==
  /\ pc = "rejected"
  /\ IsError(path)
  /\ Len(input) >= 3
  /\ \A i \in 1..Len(input) :
       /\ Len(input[i]) \in {2, 3}
       /\ input[i][1].fin /\ input[i][2].fin
  /\ \E i \in 1..Len(input) : HasWidth(input[i]) /\ ~input[i][3].fin

\* C10 as claimed: no index whose width is absent lies in a narrow-section
\* region
C10_AbsentWidthNotNarrow ==
  pc \in {"analyzed", "placed"} =>
    \A i \in 1..Len(path.widths) :
      path.widths[i] = Null =>
        \A j \in 1..Len(metrics.narrowSections) :
          ~InRegion(i - 1, metrics.narrowSections[j])

\* placeText was called on a path with points, at an index of the path
PlacedText ==
  \/ /\ pc = "glyphs"
     /\ Len(path.points) > 0
     /\ 0 <= fromIdx /\ fromIdx < Len(path.points)
  \/ /\ pc \in {"rendered", "rerun"}
     /\ result.placement.kind = "Candidate"

\* the arclength from point fromIdx to the end of the path
RestOfPath == Arclength(fromIdx, LastIdx) * Scale

\* the point of the path at arclength a from the point at index j, as
\* <<x, y>>: on the first segment from j on that reaches a
RECURSIVE ArcPoint(_, _)
ArcPoint(j, a) ==
  LET p1 == path.points[j + 1]
  IN IF a = 0 \/ j >= LastIdx THEN <<p1.x * Scale, p1.y * Scale>>
     ELSE LET p2 == path.points[j + 2]
              len == Dist(p1, p2)
          IN IF a <= len * Scale
             THEN <<p1.x * Scale + ((p2.x - p1.x) * a) \div len,
                    p1.y * Scale + ((p2.y - p1.y) * a) \div len>>
             ELSE ArcPoint(j + 1, a - len * Scale)

\* the point of the path at arclength a from point fromIdx, 0 <= a <=
\* RestOfPath
PointAtArc(a) == ArcPoint(fromIdx, a)

\* glyphs sit at arclengths that are multiples of half a unit
HalfUnit == Scale \div 2

\* the first multiple k of half a unit, from k on, at whose arclength the
\* glyph g sits; -1 if there is none up to the end of the path
RECURSIVE FirstHalfUnit(_, _)
FirstHalfUnit(k, g) ==
  IF k * HalfUnit > RestOfPath THEN 0 - 1
  ELSE IF PointAtArc(k * HalfUnit) = <<g.x, g.y>> THEN k
  ELSE FirstHalfUnit(k + 1, g)

\* the glyphs from the i-th on sit at arclengths that do not decrease,
\* none before k half units
RECURSIVE InTravelOrder(_, _)
InTravelOrder(i, k) ==
  \/ i > Len(placements.list)
  \/ LET at == FirstHalfUnit(k, placements.list[i])
     IN /\ at >= 0
        /\ InTravelOrder(i + 1, at)

SlotCentre(i) ==
  Scale * SumSeq([k \in 1..(i - 1) |-> AdvanceWidth(text[k])])
    + (Scale * AdvanceWidth(text[i])) \div 2

\* the direction of the segment from index j to j + 1, in degrees
Heading(j) ==
  Atan2Deg(path.points[j + 2].y - path.points[j + 1].y,
           path.points[j + 2].x - path.points[j + 1].x)

\* the glyph g sits at distance d from startIdx: inside the segment that
\* holds d, turned to its direction, or at the final point with the last
\* segment's direction when d is beyond the end of the path
SitsAt(g, d) ==
  IF d > RestOfPath
  THEN /\ g.x = path.points[LastIdx + 1].x * Scale
       /\ g.y = path.points[LastIdx + 1].y * Scale
       /\ g.angle = Heading(LastIdx - 1)
  ELSE /\ <<g.x, g.y>> = PointAtArc(d)
       /\ \E j \in fromIdx..(LastIdx - 1) :
            /\ Arclength(fromIdx, j) * Scale < d
            /\ d <= Arclength(fromIdx, j + 1) * Scale
            /\ g.angle = Heading(j)

InvalidCall ==
  /\ pc = "glyphs"
  /\ \/ Len(path.points) = 0
     \/ fromIdx < 0
     \/ fromIdx >= Len(path.points)

\* C13 as claimed: placeText fails for every label when startIdx is outside
\* [0, pointCount - 1] or the path has no points
C13_InvalidCallFails ==
  InvalidCall => IsError(placements)

\* C13, amended: for every label of one character or more, placeText fails
\* when the path has no points ("Invalid path") or startIdx is outside
\* [0, pointCount - 1] ("Invalid startIdx"); for the empty label it returns
\* the empty list whatever the path and startIdx are
C13_InvalidCallFailsForText ==
  InvalidCall =>
    IF Len(text) = 0 THEN placements = PlacementList(<<>>)
    ELSE /\ IsError(placements)
         /\ placements.message =
              (IF Len(path.points) = 0
               THEN "Invalid path: path must have points"
               ELSE "Invalid startIdx")

\* a label of two characters was refused for a startIdx one past the last
\* index of a path that has points
C13_Witness ==
  /\ InvalidCall
  /\ Len(text) = 2
  /\ IsError(placements)
  /\ Len(path.points) > 0
  /\ fromIdx = Len(path.points)

Analyzed == pc = "analyzed"

C14_ExactWitness ==
  /\ Analyzed
  /\ path.length > 0
  /\ EdgeDivisor * metrics.edgeSections.start.length = path.length
  /\ EdgeDivisor * metrics.edgeSections.end.length = path.length

\* the point at JavaScript index i
PathPoint(i) == path.points[i + 1]

\* a segment next to the interior point at index i has no length
TouchesEmptySegment(i) ==
  PathPoint(i) = PathPoint(i - 1) \/ PathPoint(i) = PathPoint(i + 1)

C15_EmptySegmentsWitness ==
  /\ Analyzed
  /\ LastIdx >= MinPoints
  /\ path.length > 0
  /\ \A i \in 1..(LastIdx - 1) : TouchesEmptySegment(i)

Extracted == pc = "extracted"

\* C16 as claimed: extractCenterline fails on a ring of fewer than 3
\* vertices, and fails when no sample has 2 intersections or more, so that
\* it never returns an empty centerline
C16_ExtractionFailsWithoutCrossSections ==
  Extracted =>
    IF Len(polygon) < MinPoints THEN IsError(centerline)
    ELSE IsError(centerline) \/ Len(centerline.list) > 0

\* the change of direction between two angles in degrees, taken the short
\* way round
AngleChange(a, b) ==
  LET d == IF a >= b THEN a - b ELSE b - a
  IN IF d > 180 THEN 360 - d ELSE d

MaxAngleChange == 15

\* C17 as claimed: in every list of glyphs that placeText returns, the
\* angles of two consecutive glyphs differ by 15 degrees at most
C17_SmoothOrientation ==
  PlacedText =>
    \A i \in 2..Len(placements.list) :
      AngleChange(placements.list[i - 1].angle, placements.list[i].angle)
        <= MaxAngleChange

\* findOptimalPlacement has returned for the straight river and its label
StraightRiverPlaced ==
  /\ Placed
  /\ input = StraightRiver
  /\ text = StraightRiverName

\* a score within 1 of 100
About100(v) == v >= 99 * Scale /\ v <= 100 * Scale

\* a score within 10 of 100
Near100(v) == v >= 90 * Scale /\ v <= 100 * Scale

LongStraightRiverPlaced ==
  /\ Placed
  /\ input = LongStraightRiver
  /\ text = StraightRiverName

C18_LongWitness ==
  /\ LongStraightRiverPlaced
  /\ result.placement.kind = "Candidate"

\* analyzeGeometry has returned for the river with the right-angle turn
TurnRiverAnalyzed == Analyzed /\ input = TurnRiver

\* the same turn with legs 1 long: [(0,0),(1,0),(1,1)]
UnitTurn ==
  <<[x |-> 0, y |-> 0], [x |-> 1, y |-> 0], [x |-> 1, y |-> 1]>>

\* C19 as claimed: for [(0,0),(10,0),(10,10)] the curvature at index 1 is
\* positive and about 45, and the curvature at index 0 and 2 is 0
C19_TurnCurvatureAbout45 ==
  TurnRiverAnalyzed =>
    /\ metrics.curvatures[2] > 0
    /\ metrics.curvatures[2] >= 44 * Scale
    /\ metrics.curvatures[2] <= 46 * Scale
    /\ metrics.curvatures[1] = 0
    /\ metrics.curvatures[3] = 0

\* C19, amended: for [(0,0),(10,0),(10,10)] the curvature at index 1 is 4.5,
\* the raw value 90 / 10 = 9 degrees per unit length halved by smoothing
\* against a zero neighbour, and the curvature at index 0 and 2 is 0; it is
\* 45 for the same turn with legs 1 long
C19_TurnCurvatureIsAngleOverLength ==
  /\ TurnRiverAnalyzed =>
       metrics.curvatures = <<0, (9 * Scale) \div 2, 0>>
  /\ (Analyzed /\ path.points = UnitTurn) =>
       metrics.curvatures = <<0, 45 * Scale, 0>>

\* the river with the right-angle turn has been analysed
C19_Witness ==
  /\ TurnRiverAnalyzed
  /\ Len(metrics.curvatures) = 3
  /\ metrics.curvatures[2] > 0

\* the turn with legs 1 long has been analysed
C19_UnitWitness ==
  /\ Analyzed
  /\ path.points = UnitTurn
  /\ metrics.curvatures[2] > 0

\* the pipeline has run a second time on the same river and label
RanAgain == pc = "rerun"

Before(v, w) == v[1] < w[1] \/ (v[1] = w[1] /\ v[2] < w[2])

\* C21: the candidates of findCandidates are the windows [s, e], s < e,
\* without a rejected index and at least as long as the label: each of them
\* once, none other, in order of increasing s and then increasing e, each
\* with its arclength; when no window fits there is no candidate
C21_CandidatesAreFittingWindows ==
  Placed =>
    LET fitting == FittingWindows
        list == result.allCandidates
    IN IF fitting = {} THEN ~Fitted
       ELSE /\ Fitted
            /\ \A w \in fitting : \E k \in 1..Len(list) : WindowOf(list[k]) = w
            /\ \A k \in 1..Len(list) :
                 /\ WindowOf(list[k]) \in fitting
                 /\ list[k].segment.length =
                      Arclength(list[k].segment.startIdx,
                                list[k].segment.endIdx)
            /\ \A k \in 2..Len(list) :
                 Before(WindowOf(list[k - 1]), WindowOf(list[k]))

\* candidates from two start indices, two of them from the same start, on
\* a path with a window too short for the label
C21_Witness ==
  /\ Fitted
  /\ TextWidth > 0
  /\ FittingWindows # Windows
  /\ \E j, k \in 1..Len(result.allCandidates) :
       /\ j < k
       /\ result.allCandidates[j].segment.startIdx =
            result.allCandidates[k].segment.startIdx
  /\ \E j, k \in 1..Len(result.allCandidates) :
       result.allCandidates[j].segment.startIdx <
         result.allCandidates[k].segment.startIdx

\* the smoothed curvature at index i is over the threshold
Sharp(i) == metrics.curvatures[i + 1] > SharpThreshold * Scale

\* the maximal runs [a, b] of consecutive sharp indices
SharpRuns ==
  {r \in (0..LastIdx) \X (0..LastIdx) :
     /\ r[1] <= r[2]
     /\ \A i \in r[1]..r[2] : Sharp(i)
     /\ r[1] = 0 \/ ~Sharp(r[1] - 1)
     /\ r[2] = LastIdx \/ ~Sharp(r[2] + 1)}

\* the list holds the runs of the set, each once, in path order, each
\* with its arclength and the reason
RegionsAre(list, runs, reason) ==
  /\ Len(list) = Cardinality(runs)
  /\ \A k \in 1..Len(list) :
       /\ <<list[k].startIdx, list[k].endIdx>> \in runs
       /\ list[k].length = Arclength(list[k].startIdx, list[k].endIdx)
       /\ list[k].reason = reason
  /\ \A k \in 2..Len(list) : list[k - 1].endIdx < list[k].startIdx

\* C22: the sharp-curve regions are the maximal runs of consecutive indices
\* whose smoothed curvature is greater than the threshold, one region per
\* run from its first to its last index, and the mean curvature of every
\* region is greater than the threshold
C22_SharpCurvesAreMaximalRuns ==
  Analyzed =>
    /\ RegionsAre(metrics.sharpCurves, SharpRuns, "sharp curve")
    /\ \A k \in 1..Len(metrics.sharpCurves) :
         LET r == metrics.sharpCurves[k]
         IN SumSeq(SubSeq(metrics.curvatures, r.startIdx + 1, r.endIdx + 1))
              > SharpThreshold * Scale * (r.endIdx - r.startIdx + 1)

\* two sharp-curve regions, one of two indices or more, on a path with an
\* index whose curvature is exactly the threshold
C22_Witness ==
  /\ Analyzed
  /\ Len(metrics.sharpCurves) >= 2
  /\ \E k \in 1..Len(metrics.sharpCurves) :
       metrics.sharpCurves[k].startIdx < metrics.sharpCurves[k].endIdx
  /\ \E i \in 0..LastIdx :
       metrics.curvatures[i + 1] = SharpThreshold * Scale

\* the point at index i carries a width, and it is below the minimum
Narrow(i) ==
  /\ i < Len(path.widths)
  /\ path.widths[i + 1] # Null
  /\ path.widths[i + 1][1] < MinWidth

\* the maximal runs [a, b] of consecutive narrow indices
NarrowRuns ==
  {r \in (0..LastIdx) \X (0..LastIdx) :
     /\ r[1] <= r[2]
     /\ \A i \in r[1]..r[2] : Narrow(i)
     /\ r[1] = 0 \/ ~Narrow(r[1] - 1)
     /\ r[2] = LastIdx \/ ~Narrow(r[2] + 1)}

\* C23 as claimed: the narrow-section regions are the maximal runs of
\* consecutive indices whose width is below the minimum, a run that reaches
\* the last index closing there, and a path without width data has none
C23_NarrowSectionsAreMaximalRuns ==
  Analyzed =>
    RegionsAre(metrics.narrowSections, NarrowRuns, "narrow section")

\* the rejected regions of the analysis: sharp curves, narrow sections and
\* the two edge regions
AllRegions ==
  metrics.sharpCurves \o metrics.narrowSections
    \o <<metrics.edgeSections.start, metrics.edgeSections.end>>

Overlap(r, q) == r.startIdx <= q.endIdx /\ q.startIdx <= r.endIdx

\* the regions of the list are apart from each other, with an index that
\* is in none of them between two of them
Apart(list) ==
  \A j, k \in 1..Len(list) :
    j < k => list[j].endIdx + 1 < list[k].startIdx

\* C24 as claimed: no two rejected regions of the analysis share an index
C24_RegionsDoNotOverlap ==
  Analyzed =>
    \A j, k \in 1..Len(AllRegions) :
      j # k => ~Overlap(AllRegions[j], AllRegions[k])

\* C24, amended: no two sharp-curve regions share an index or touch, and no
\* two narrow-section regions do; regions of different kinds, and the two
\* edge regions of a path of three points, do share indices
C24_RegionsOfAKindDoNotOverlap ==
  Analyzed =>
    /\ Apart(metrics.sharpCurves)
    /\ Apart(metrics.narrowSections)
    /\ Len(path.points) = MinPoints =>
         Overlap(metrics.edgeSections.start, metrics.edgeSections.end)

\* two sharp-curve regions, one of them sharing an index with the start
\* edge region
C24_Witness ==
  /\ Analyzed
  /\ Len(metrics.sharpCurves) >= 2
  /\ Overlap(metrics.sharpCurves[1], metrics.edgeSections.start)
  /\ ~Overlap(metrics.edgeSections.start, metrics.edgeSections.end)

\* two narrow-section regions on a path whose points all carry a width
C24_NarrowWitness ==
  /\ Analyzed
  /\ Len(metrics.narrowSections) >= 2
  /\ \A i \in 1..Len(path.widths) : path.widths[i] # Null

\* the widths 20, 5, 5, 20, 20 give the one narrow-section region 1..2
C23_ScenarioWitness ==
  /\ Analyzed
  /\ path.widths = <<Num(20), Num(5), Num(5), Num(20), Num(20)>>
  /\ Len(metrics.narrowSections) = 1
  /\ metrics.narrowSections[1].startIdx = 1
  /\ metrics.narrowSections[1].endIdx = 2

\* the two outermost indices at each end of the path lie in an edge region
OuterIndicesAtEdges ==
  /\ InRegion(0, metrics.edgeSections.start)
  /\ InRegion(1, metrics.edgeSections.start)
  /\ InRegion(LastIdx - 1, metrics.edgeSections.end)
  /\ InRegion(LastIdx, metrics.edgeSections.end)

C26_LabelWitness ==
  /\ Placed
  /\ Len(path.points) = 5
  /\ ~Rejected(2)
  /\ Len(text) = 1
  /\ result.placement.kind = "null"

\* the pipeline has placed the glyphs of a label on a window that fits it,
\* and the widths of the glyphs add up to the measured length of the label
RenderedInWindow ==
  /\ pc \in {"rendered", "rerun"}
  /\ result.warning = "null"
  /\ result.placement.kind = "Candidate"
  /\ placements.kind = "placements"
  /\ SumSeq([k \in 1..Len(placements.list) |-> placements.list[k].width])
       = result.textLength * Scale

\* the glyph g sits on the path at arclength d from index s, on a segment
\* between the indices s and e
OnWindow(g, d, s, e) ==
  /\ d <= Arclength(s, e) * Scale
  /\ <<g.x, g.y>> = ArcPoint(s, d)
  /\ \E j \in s..(e - 1) :
       /\ Arclength(s, j) * Scale <= d
       /\ d <= Arclength(s, j + 1) * Scale
       /\ <<g.x, g.y>> = ArcPoint(j, d - Arclength(s, j) * Scale)

\* C27: when findOptimalPlacement returns a placement without a warning,
\* every glyph placeText computes from placement.segment.startIdx lies on
\* the path between the points startIdx and endIdx of the selected window,
\* none of whose indices is in a rejected region
C27_GlyphsInsideSelectedWindow ==
  RenderedInWindow =>
    LET s == result.placement.segment.startIdx
        e == result.placement.segment.endIdx
    IN /\ fromIdx = s
       /\ Len(placements.list) = Len(text)
       /\ Clear(s, e)
       /\ \A i \in 1..Len(placements.list) :
            OnWindow(placements.list[i], SlotCentre(i), s, e)

\* a glyph placed past the first segment of a window that ends before the
\* end edge region, on a path with a rejected region after the window
C27_Witness ==
  /\ RenderedInWindow
  /\ Len(text) >= 1
  /\ LET s == result.placement.segment.startIdx
         e == result.placement.segment.endIdx
     IN /\ e > s + 1
        /\ e + 1 < metrics.edgeSections.end.startIdx
        /\ Rejected(e + 1)
        /\ SlotCentre(Len(text)) > Arclength(s, s + 1) * Scale

\* parse was called on a text that names a polygon of fewer than 6 vertices
ParsedSmallPolygon ==
  /\ pc = "wkt"
  /\ input.keyword = "POLYGON"
  /\ Len(SelectSeq(input.pairs, IsPair)) < 6

\* C30: for a polygon text of fewer than 6 vertices extractCenterline takes
\* at most floor(vertices / 2) <= 2 samples and yields fewer than 3
\* centerline points, and parse returns an error, never a river path
C30_SmallPolygonsAreRejected ==
  ParsedSmallPolygon =>
    /\ IsError(path)
    /\ ~IsError(centerline) =>
         /\ Len(centerline.list) <= Len(SelectSeq(input.pairs, IsPair)) \div 2
         /\ Len(centerline.list) <= 2

\* a polygon of 5 vertices, both of its samples crossing the ring, after a
\* piece of the text that holds no vertex
C30_Witness ==
  /\ ParsedSmallPolygon
  /\ Len(input.pairs) = 6
  /\ ~IsError(centerline)
  /\ Len(centerline.list) = 2
  /\ IsError(path)

\* the last operation of the controller ran renderPipeline to its drawing
Drew == pc = "ui" /\ ui.calls # <<>>

DrewRejectedAreas ==
  \E k \in 1..Len(ui.calls) : ui.calls[k] = "drawRejectedAreas"

\* C25: whenever the Rejected Areas option is enabled and the analysis of the
\* current river has a rejected region, renderPipeline calls the renderer's
\* drawRejectedAreas; when the option is disabled it does not
C25_RejectedAreasDrawnWhenEnabled ==
  Drew =>
    /\ (ui.showRejectedAreas /\ AllRegions # <<>>) => DrewRejectedAreas
    /\ ~ui.showRejectedAreas => ~DrewRejectedAreas

\* C28: after any sequence of operations currentRiver is null or a river
\* path, never an error value, so that no later updateRiverName fails and
\* no later toggleVisualization throws
C28_CurrentRiverNeverAnError ==
  pc = "ui" =>
    /\ path = NoRiver \/ IsRiver(path)
    /\ ui.error # "Failed to update river name"
    /\ ~ui.thrown

\* C29: once no loadWKTFile call awaits its response, the current river and
\* its name are those the most recently requested load left
C29_LatestLoadWins ==
  (pc = "ui" /\ ui.pending = <<>>) =>
    /\ path = ui.selected.river
    /\ text = ui.selected.name

=============================================================================
